---- MODULE Spec2Model ----
(***************************************************************************)
(* The chat client of the campaign agent: the SSE streaming client         *)
(* (streamChat, lib/api.ts) and the reducer that rebuilds the transcript    *)
(* and the phase map from its events (send, components/Chat.tsx).           *)
(*                                                                         *)
(* Text is modelled by TLA+ strings (concatenation \o, length Len).  The    *)
(* warning sign that the code puts in front of an error text is written     *)
(* "(!)" here, since the module is ASCII; in a text that the user submits,  *)
(* given character by character, a character that the module cannot hold is *)
(* written by its code point, "<U+000B>".  The bytes of a response are a     *)
(* sequence of atoms: a line feed, a space, the "data: " prefix, the text of *)
(* one JSON value, or text that is not JSON.                                *)
(***************************************************************************)
EXTENDS Integers, Sequences, FiniteSets, TLC

\* ------------------------------------------------------------------ bounds

\* Requests the user gets accepted in one run.
MaxSends == 2
\* Network events in one run, over all responses: frames written, and
\* responses refused, broken or ended.
MaxNet == 4
\* The orchestrator's iteration bound: oracle turns that may request tools.
MaxIterations == 2
\* Token fragments in which the oracle delivers its final text.
MaxFragments == 2
\* Delimited frames in the body of a response that is read chunk by chunk.
MaxFrames == 3
\* Invocations of the schedule tool.
MaxSchedules == 4

\* ------------------------------------------------------- program constants

\* Chat.tsx:110  if (textBuffer.length > 50) flushText();
FlushThreshold == 50

Reqs == 1 .. MaxSends

\* crypto.randomUUID(): the n-th identifier drawn; all are distinct.
UserId(r) == 2 * r - 1
AssistantIdOf(r) == 2 * r

\* --------------------------------------------------------------- the wire

NL == [a |-> "nl"]
SP == [a |-> "sp"]
DATA == [a |-> "data: "]
\* The prefix without its last character, the space: what trim() leaves of a
\* prefix that stands at the end.
DATA_TRIMMED == [a |-> "data:"]
\* The prefix in two pieces, "da" and "ta: ", for a read that ends inside
\* it, and the second piece without its last character.
DATA_HEAD == [a |-> "da"]
DATA_TAIL == [a |-> "ta: "]
DATA_TAIL_TRIMMED == [a |-> "ta:"]
\* Text that JSON.parse rejects.
JUNK == [a |-> "junk"]
\* The text of the JSON value v.
Json(v) == [a |-> "json", v |-> v]
\* The same text in two pieces, for a read that ends inside it.
JsonHead(v) == [a |-> "jsonHead", v |-> v]
JsonTail(v) == [a |-> "jsonTail", v |-> v]

JsonNull == [json |-> "null"]
JsonNumber == [json |-> "number"]
\* An object with a type that the schema does not have.
UnknownEvent == [type |-> "ping"]

T30 == "abcdefghijklmnopqrstuvwxyzABCD"

TokenContents == {"", "a", T30}
\* Node names: a tool's, a phase identifier of the pipeline, an unknown one.
Nodes == {"query_crm"}
PhaseNodes == {"audience_research"}
UnknownNodes == {"mystery"}
Statuses == {"running", "done", "error"}
ErrorMessages == {"boom"}

AudienceData == {[count |-> 12, segment_id |-> "seg_1"], [count |-> 0, segment_id |-> "seg_0"]}
CampaignData == {[email |-> "subject", sms |-> "body"]}
ScheduleData == {[campaign_id |-> "cmp_1", audience_size |-> 12]}

\* SSEEvent (lib/api.ts)
AgentStepEvents ==
    {[type |-> "agent_step", node |-> n, status |-> s] : n \in Nodes, s \in Statuses}
        \cup {[type |-> "agent_step", node |-> n, status |-> "running"] :
                n \in PhaseNodes \cup UnknownNodes}
TokenEvents == {[type |-> "token", content |-> c] : c \in TokenContents}
StructuredEvents ==
    {[type |-> "audience_result", data |-> d] : d \in AudienceData}
        \cup {[type |-> "campaign_draft", data |-> d] : d \in CampaignData}
        \cup {[type |-> "scheduled", data |-> d] : d \in ScheduleData}
DoneEvent == [type |-> "done"]
ErrorEvents == {[type |-> "error", message |-> m] : m \in ErrorMessages}
SSEEvents == AgentStepEvents \cup TokenEvents \cup StructuredEvents \cup {DoneEvent} \cup ErrorEvents

\* JSON values that are no event of the schema.
NonEvents == {JsonNull, JsonNumber, UnknownEvent}

Delimiter == <<NL, NL>>

\* A frame as the server writes it: "data: <json>\n\n".
Frame(v) == <<DATA, Json(v)>> \o Delimiter
ValidFrames == {Frame(e) : e \in SSEEvents}
NonEventFrames == {Frame(v) : v \in NonEvents}
\* Delimited parts that do not parse: no "data: " prefix, a payload that is
\* not JSON, or the prefix alone, which trim() cuts down to "data:".
CorruptFrames == {<<JUNK>> \o Delimiter, <<DATA, JUNK>> \o Delimiter, <<DATA>> \o Delimiter}
\* A last frame written without its delimiter.
UnterminatedFrames == {<<DATA, Json(DoneEvent)>>}

IsWhitespace(x) == x = NL \/ x = SP

\* The index of the first "\n\n" in s, 0 when there is none.
IndexOfDelimiter(s) ==
    LET hits == {i \in 1 .. Len(s) - 1 : s[i] = NL /\ s[i + 1] = NL}
    IN  IF hits = {} THEN 0 ELSE CHOOSE i \in hits : \A j \in hits : i <= j

RECURSIVE Split(_)
\* buffer.split("\n\n")
Split(s) ==
    LET i == IndexOfDelimiter(s)
    IN  IF i = 0 THEN <<s>>
        ELSE <<SubSeq(s, 1, i - 1)>> \o Split(SubSeq(s, i + 2, Len(s)))

RECURSIVE TrimStart(_)
TrimStart(s) == IF s # <<>> /\ IsWhitespace(Head(s)) THEN TrimStart(Tail(s)) ELSE s

RECURSIVE TrimEnd(_)
\* White space at the end is removed; the space that ends a "data: " prefix
\* is white space too.
TrimEnd(s) ==
    IF s # <<>> /\ IsWhitespace(s[Len(s)]) THEN TrimEnd(SubSeq(s, 1, Len(s) - 1))
    ELSE IF s # <<>> /\ s[Len(s)] = DATA THEN SubSeq(s, 1, Len(s) - 1) \o <<DATA_TRIMMED>>
    ELSE IF s # <<>> /\ s[Len(s)] = DATA_TAIL
         THEN SubSeq(s, 1, Len(s) - 1) \o <<DATA_TAIL_TRIMMED>>
    ELSE s

\* part.trim()
Trim(s) == TrimEnd(TrimStart(s))

\* line.startsWith("data: ")
\* The atoms of `line` that make up a "data: " at its start: none, the
\* prefix, or its two pieces.
PrefixAtoms(line) ==
    IF line # <<>> /\ Head(line) = DATA THEN 1
    ELSE IF Len(line) >= 2 /\ line[1] = DATA_HEAD /\ line[2] = DATA_TAIL THEN 2
    ELSE 0

StartsWithData(line) == PrefixAtoms(line) > 0

\* line.slice(6)
AfterData(line) == SubSeq(line, PrefixAtoms(line) + 1, Len(line))

\* JSON.parse(json) succeeds: one JSON text, white space around it allowed.
JsonParses(json) ==
    LET t == Trim(json)
    IN  \/ Len(t) = 1 /\ t[1].a = "json"
        \/ Len(t) = 2 /\ t[1].a = "jsonHead" /\ t[2].a = "jsonTail" /\ t[1].v = t[2].v
JsonParse(json) == Trim(json)[1].v

\* A faulty ParsePart: a part that should be skipped yields null.
ParsePartYieldsNull(part) ==
    LET line == Trim(part)
    IN  IF StartsWithData(line) /\ JsonParses(AfterData(line))
        THEN <<JsonParse(AfterData(line))>>
        ELSE <<JsonNull>>

\* The values one part yields: none when it is skipped.
ParsePart(part) ==
    LET line == Trim(part)
    IN  IF ~StartsWithData(line) THEN <<>>
        ELSE LET json == AfterData(line)
             IN  IF JsonParses(json) THEN <<JsonParse(json)>> ELSE <<>>

RECURSIVE ParseParts(_)
ParseParts(parts) ==
    IF parts = <<>> THEN <<>> ELSE ParsePart(Head(parts)) \o ParseParts(Tail(parts))

Front(s) == SubSeq(s, 1, Len(s) - 1)
Last(s) == s[Len(s)]

\* A faulty streamChat: nothing is kept for the next read.
PoppedNothing(parts) == <<>>

\* buffer = parts.pop() ?? ""
Popped(parts) == Last(parts)

\* ------------------------------------------------------------ the reducer
\* A state of the component is a record
\*   messages    useState<Message[]>            (Chat.tsx:18)
\*   isStreaming useState(false)                (Chat.tsx:20)
\*   phases      useState<Record<string, ...>>  (Chat.tsx:21)
\* together with, for each call r of send,
\*   pc[r]         where the call stands
\*   textBuffer[r] its local textBuffer         (Chat.tsx:67)
\*   buffer[r]     the buffer of its streamChat (lib/api.ts)
\* The operators below take such a record and return the next one, so that
\* the same code can be run on a varied input or with a varied threshold.

NoPhases == [n \in {} |-> "idle"]

TextBlock(t) == [kind |-> "text", text |-> t]

\* A faulty updatePhase: a status once set for a node is kept.
updatePhaseKeepsFirst(st, node, status) ==
    IF node \in DOMAIN st.phases THEN st
    ELSE [st EXCEPT !.phases = [n \in DOMAIN st.phases \cup {node} |->
                                  IF n = node THEN status ELSE st.phases[n]]]

\* setPhases((prev) => ({ ...prev, [node]: status }))
updatePhase(st, node, status) ==
    [st EXCEPT !.phases =
        [n \in DOMAIN st.phases \cup {node} |-> IF n = node THEN status ELSE st.phases[n]]]

\* A faulty MergeText: the text goes into the last text block of the
\* message, also when a structured block stands after it.
MergeTextCrossing(m, snapshot) ==
    LET texts == {i \in DOMAIN m.contents : m.contents[i].kind = "text"}
    IN  IF texts = {} THEN [m EXCEPT !.contents = Append(m.contents, TextBlock(snapshot))]
        ELSE LET k == CHOOSE i \in texts : \A j \in texts : j <= i
             IN  [m EXCEPT !.contents[k].text = @ \o snapshot]

\* A faulty MergeText: the last text block is replaced, not extended.
MergeTextOverwrites(m, snapshot) ==
    LET n == Len(m.contents)
    IN  IF n > 0 /\ m.contents[n].kind = "text"
        THEN [m EXCEPT !.contents = SubSeq(m.contents, 1, n - 1) \o <<TextBlock(snapshot)>>]
        ELSE [m EXCEPT !.contents = Append(m.contents, TextBlock(snapshot))]

\* last?.kind === "text" ? merge into the last block : append a text block
MergeText(m, snapshot) ==
    LET n == Len(m.contents)
    IN  IF n > 0 /\ m.contents[n].kind = "text"
        THEN [m EXCEPT !.contents =
                 SubSeq(m.contents, 1, n - 1) \o <<TextBlock(m.contents[n].text \o snapshot)>>]
        ELSE [m EXCEPT !.contents = Append(m.contents, TextBlock(snapshot))]

\* A faulty flushText: the pending text is put into the message also when
\* it is empty.
flushTextAlways(st, r) ==
    LET snapshot == st.textBuffer[r]
        prev == st.messages
    IN  [st EXCEPT !.textBuffer[r] = "",
                   !.messages = [i \in DOMAIN prev |->
                       IF prev[i].id # AssistantIdOf(r) THEN prev[i]
                       ELSE MergeText(prev[i], snapshot)]]

\* if (!textBuffer) return; ... setMessages((prev) => prev.map(...))
flushText(st, r) ==
    IF st.textBuffer[r] = "" THEN st
    ELSE LET snapshot == st.textBuffer[r]
             prev == st.messages
         IN  [st EXCEPT !.textBuffer[r] = "",
                        !.messages = [i \in DOMAIN prev |->
                            IF prev[i].id # AssistantIdOf(r) THEN prev[i]
                            ELSE MergeText(prev[i], snapshot)]]

\* A faulty appendContent: the block is put first.
appendContentFirst(st, r, content) ==
    LET flushed == flushText(st, r)
        prev == flushed.messages
    IN  [flushed EXCEPT !.messages = [i \in DOMAIN prev |->
            IF prev[i].id = AssistantIdOf(r)
            THEN [prev[i] EXCEPT !.contents = <<content>> \o @]
            ELSE prev[i]]]

\* A faulty appendContent: the block is put into every message, the
\* identifier is not looked at.
appendContentEvery(st, r, content) ==
    LET flushed == flushText(st, r)
        prev == flushed.messages
    IN  [flushed EXCEPT !.messages = [i \in DOMAIN prev |->
            [prev[i] EXCEPT !.contents = Append(@, content)]]]

\* flushText(); setMessages((prev) => ... [...m.contents, content] ...)
appendContent(st, r, content) ==
    LET flushed == flushText(st, r)
        prev == flushed.messages
    IN  [flushed EXCEPT !.messages = [i \in DOMAIN prev |->
            IF prev[i].id = AssistantIdOf(r)
            THEN [prev[i] EXCEPT !.contents = Append(@, content)]
            ELSE prev[i]]]

\* The type of a yielded value: undefined for a value without the property.
TypeOf(v) == IF "type" \in DOMAIN v THEN v.type ELSE "undefined"

\* event.type of null throws a TypeError.
ReadingTypeThrows(v) == v = JsonNull

ErrorPrefix == "(!) "
ConnectionErrorPrefix == "(!) Connection error: "
TypeErrorMessage == "Cannot read properties of null (reading 'type')"
ApiErrorMessage == "API error: 500"
NetworkErrorMessage == "Failed to fetch"

\* A faulty test: any pending text is flushed.
OverThresholdAlways(text, threshold) == Len(text) > 0

\* textBuffer.length > threshold; a negative threshold stands for no size
\* flush at all.
OverThreshold(text, threshold) == threshold >= 0 /\ Len(text) > threshold

\* textBuffer += event.content; if (textBuffer.length > 50) flushText();
OnToken(st, r, event, threshold) ==
    LET buffered == [st EXCEPT !.textBuffer[r] = @ \o event.content]
    IN  IF OverThreshold(buffered.textBuffer[r], threshold)
        THEN flushText(buffered, r) ELSE buffered

\* A faulty done branch: nothing is flushed.
OnDoneNoFlush(st, r) == st

\* else if (event.type === "done") { flushText(); }
OnDone(st, r) == flushText(st, r)

\* A faulty error branch: the error text goes into the pending text.
OnErrorMerged(st, r, event) ==
    flushText([st EXCEPT !.textBuffer[r] = @ \o ErrorPrefix \o event.message], r)

\* else if (event.type === "error") { flushText(); appendContent(...) }
OnError(st, r, event) ==
    appendContent(flushText(st, r), r, TextBlock(ErrorPrefix \o event.message))

\* The body of the for-await loop for one yielded value.
HandleEvent(st, r, event, threshold) ==
    LET type == TypeOf(event)
    IN  CASE type = "agent_step" -> updatePhase(st, event.node, event.status)
          [] type = "token" -> OnToken(st, r, event, threshold)
          [] type = "audience_result" ->
                appendContent(flushText(st, r), r, [kind |-> "audience", data |-> event.data])
          [] type = "campaign_draft" ->
                appendContent(flushText(st, r), r, [kind |-> "campaign", data |-> event.data])
          [] type = "scheduled" ->
                appendContent(flushText(st, r), r, [kind |-> "scheduled", data |-> event.data])
          [] type = "done" -> OnDone(st, r)
          [] type = "error" -> OnError(st, r, event)
          [] OTHER -> st

\* A faulty finally: the lock is kept.
FinallyKeepsLock(st, r) == [st EXCEPT !.pc[r] = "finished"]

\* finally { setIsStreaming(false); ... }
Finally(st, r) == [st EXCEPT !.isStreaming = FALSE, !.pc[r] = "finished"]

\* A faulty catch: the text is flushed, nothing is said of the failure.
CatchFinallySilent(st, r, message) == Finally(flushText(st, r), r)

\* catch (err) { flushText(); appendContent(...) } finally { ... }
CatchFinally(st, r, message) ==
    Finally(appendContent(flushText(st, r), r, TextBlock(ConnectionErrorPrefix \o message)), r)

RECURSIVE RunLoop(_, _, _, _)
\* The loop over the values one read yields; a throw in the body leaves it.
RunLoop(st, r, events, threshold) ==
    IF events = <<>> THEN st
    ELSE IF ReadingTypeThrows(Head(events)) THEN CatchFinally(st, r, TypeErrorMessage)
    ELSE RunLoop(HandleEvent(st, r, Head(events), threshold), r, Tail(events), threshold)

\* One reader.read() that returns `chunk`: the buffer grows, its complete
\* parts are parsed and yielded, the rest stays in the buffer.
ReadChunk(st, r, chunk, threshold) ==
    LET parts == Split(st.buffer[r] \o chunk)
        kept == [st EXCEPT !.buffer[r] = Popped(parts)]
    IN  RunLoop(kept, r, ParseParts(Front(parts)), threshold)

\* A faulty streamChat: at the end of the body what is left in the buffer
\* is parsed and yielded like a delimited part.
StreamEndParsesRest(st, r) ==
    LET ended == RunLoop(st, r, ParsePart(st.buffer[r]), FlushThreshold)
    IN  IF ended.pc[r] = "finished" THEN ended ELSE Finally(ended, r)

\* reader.read() returns done: the generator returns, the loop ends.
StreamEnd(st, r) == Finally(st, r)

\* --- send, up to the first await

\* A character that a string of this module cannot hold, written by its
\* code point: CodePoint("000B") is the one character U+000B.
CodePoint(hex) == "<U+" \o hex \o ">"

\* The characters that trim() removes (ECMAScript WhiteSpace and
\* LineTerminator): tab, line feed, vertical tab, form feed, carriage
\* return, space, no-break space, the space separators of Unicode, line and
\* paragraph separator, and the byte order mark.
WhiteSpaceChars ==
    {" ", "\t", "\n", "\r", "\f"}
        \cup {CodePoint(hex) : hex \in
                {"000B", "00A0", "1680", "2000", "2001", "2002", "2003", "2004", "2005",
                 "2006", "2007", "2008", "2009", "200A", "2028", "2029", "202F", "205F",
                 "3000", "FEFF"}}

RECURSIVE TrimText(_)
\* text.trim() on a text given as its characters
TrimText(cs) ==
    IF cs = <<>> THEN cs
    ELSE IF Head(cs) \in WhiteSpaceChars THEN TrimText(Tail(cs))
    ELSE IF cs[Len(cs)] \in WhiteSpaceChars THEN TrimText(SubSeq(cs, 1, Len(cs) - 1))
    ELSE cs

RECURSIVE Join(_)
Join(cs) == IF cs = <<>> THEN "" ELSE Head(cs) \o Join(Tail(cs))

\* The texts submitted: an empty one, one of white space only, and one with
\* white space around "hi".
InputTexts ==
    {<<>>, <<" ", "\t", "\n", CodePoint("000B"), CodePoint("00A0")>>,
     <<" ", "\t", CodePoint("FEFF"), "h", "i", CodePoint("3000"), "\n", " ">>}

\* const userMessage: Message = { id, role: "user", contents: [...] }
UserMessage(r, text) ==
    [id |-> UserId(r), role |-> "user", contents |-> <<TextBlock(Join(TrimText(text)))>>]

IsTextContent(c) == c.kind = "text"

\* A faulty join: the texts are put together without a separator.
JoinLinesPlain(texts) == Join(texts)

RECURSIVE JoinLines(_)
\* texts.join("\n")
JoinLines(texts) ==
    IF texts = <<>> THEN ""
    ELSE IF Len(texts) = 1 THEN texts[1]
    ELSE Head(texts) \o "\n" \o JoinLines(Tail(texts))

\* m.contents.filter((c) => c.kind === "text").map((c) => c.text).join("\n")
ContentOf(m) ==
    LET kept == SelectSeq(m.contents, IsTextContent)
    IN  JoinLines([i \in DOMAIN kept |-> kept[i].text])

\* [...messages, userMessage].map((m) => ({ role: m.role, content: ... }))
BuildHistory(msgs, userMessage) ==
    LET all == msgs \o <<userMessage>>
    IN  [i \in DOMAIN all |-> [role |-> all[i].role, content |-> ContentOf(all[i])]]

\* A faulty send: the assistant placeholder is put before the user message.
StartSendPlaceholderFirst(st, r, text) ==
    LET userMessage == UserMessage(r, text)
        assistantMessage == [id |-> AssistantIdOf(r), role |-> "assistant", contents |-> <<>>]
    IN  [st EXCEPT !.messages = st.messages \o <<assistantMessage, userMessage>>,
                   !.isStreaming = TRUE,
                   !.phases = NoPhases,
                   !.pc[r] = "fetch",
                   !.textBuffer[r] = "",
                   !.buffer[r] = <<>>]

\* A faulty send: the phase map is not reset.
StartSendKeepsPhases(st, r, text) ==
    LET userMessage == UserMessage(r, text)
        assistantMessage == [id |-> AssistantIdOf(r), role |-> "assistant", contents |-> <<>>]
    IN  [st EXCEPT !.messages = st.messages \o <<userMessage, assistantMessage>>,
                   !.isStreaming = TRUE,
                   !.pc[r] = "fetch",
                   !.textBuffer[r] = "",
                   !.buffer[r] = <<>>]

\* The call r of send with `text`, the guard passed.
StartSend(st, r, text) ==
    LET userMessage == UserMessage(r, text)
        assistantMessage == [id |-> AssistantIdOf(r), role |-> "assistant", contents |-> <<>>]
    IN  [st EXCEPT !.messages = st.messages \o <<userMessage, assistantMessage>>,
                   !.isStreaming = TRUE,
                   !.phases = NoPhases,
                   !.pc[r] = "fetch",
                   !.textBuffer[r] = "",
                   !.buffer[r] = <<>>]

\* A faulty send: the guard does not look at isStreaming.
sendUnguarded(st, r, text) ==
    IF Join(TrimText(text)) = "" THEN st ELSE StartSend(st, r, text)

\* if (!text.trim() || isStreaming) return;
send(st, r, text) ==
    IF Join(TrimText(text)) = "" \/ st.isStreaming THEN st ELSE StartSend(st, r, text)

\* ------------------------------------------------------------- the system

VARIABLES
    messages,     \* Chat.tsx:18
    isStreaming,  \* Chat.tsx:20
    phases,       \* Chat.tsx:21
    pc,           \* per call of send: "idle", "fetch", "open", "finished"
    textBuffer,   \* per call of send: Chat.tsx:67
    buffer,       \* per call of send: the buffer of streamChat
    calls,        \* calls of send that passed the guard
    wire,         \* per response: bytes written and not yet read
    netEvents,    \* network events so far
    serverOpen,   \* per response: the server may still write
    history,      \* per call: what its loop was handed so far
    skipStage,    \* per call: how far "event, skipped part, event" has come
    stepLog,      \* per call: the agent_step events its loop was handed
    alt,          \* the same inputs run with a varied threshold or input
    requestHistory, \* per call of send: the history it sent (Chat.tsx:49)
    closure,      \* the messages and isStreaming that the send of the latest render holds
    opc,          \* the orchestrator: where the request stands
    iteration,    \* the orchestrator: oracle turns that requested tools
    requested,    \* the orchestrator: tools requested and not yet dispatched
    emitted,      \* the event emitter: the events of the stream, in order
    trace,        \* the orchestrator: the tool results given back to the oracle
    written,      \* a response body: its delimited frames, in order
    tail,         \* a response body: its last bytes, not delimited
    offset,       \* a response body: the bytes read so far
    streamBuffer, \* streamChat reading the body: its buffer
    partsLeft,    \* streamChat reading the body: the parts of the last read still to look at
    yielded,      \* streamChat reading the body: the values yielded so far
    returned,     \* streamChat reading the body: the generator has returned
    campaigns,    \* the schedule tool: the campaigns created, in order
    results       \* the schedule tool: its invocations and what each returned

vars == <<messages, isStreaming, phases, pc, textBuffer, buffer, calls, wire, netEvents,
          serverOpen, history, skipStage, stepLog, alt, requestHistory, closure, opc, iteration, requested, emitted, trace,
          written, tail, offset, streamBuffer, partsLeft, yielded, returned, campaigns, results>>

clientVars == <<messages, isStreaming, phases, pc, textBuffer, buffer, calls, wire, netEvents,
                serverOpen, history, skipStage, stepLog, alt, requestHistory, closure>>
orchVars == <<opc, iteration, requested, emitted, trace>>
chunkVars == <<written, tail, offset, streamBuffer, partsLeft, yielded, returned>>
toolVars == <<campaigns, results>>

\* The component's state as one record, and its installation as next state.
Code ==
    [messages |-> messages, isStreaming |-> isStreaming, phases |-> phases,
     pc |-> pc, textBuffer |-> textBuffer, buffer |-> buffer]

Becomes(st) ==
    /\ messages' = st.messages
    /\ isStreaming' = st.isStreaming
    /\ phases' = st.phases
    /\ pc' = st.pc
    /\ textBuffer' = st.textBuffer
    /\ buffer' = st.buffer

\* The varied runs: a size flush on every non-empty token, no size flush at
\* all, and the code as it is on the bytes without the corrupt frames.
AltRuns == {"flushAlways", "flushNever", "clean"}

ThresholdOf(w) ==
    CASE w = "flushAlways" -> 0
      [] w = "flushNever" -> -1
      [] OTHER -> FlushThreshold

\* A byte on the wire, with the note whether a corrupt frame holds it.
OnWire(frame, corrupt) == [i \in DOMAIN frame |-> [x |-> frame[i], corrupt |-> corrupt]]
Bytes(chunk) == [i \in DOMAIN chunk |-> chunk[i].x]
IsSound(b) == ~b.corrupt
ChunkFor(w, chunk) == IF w = "clean" THEN Bytes(SelectSeq(chunk, IsSound)) ELSE Bytes(chunk)

InitialState ==
    [messages |-> <<>>, isStreaming |-> FALSE, phases |-> NoPhases,
     pc |-> [r \in Reqs |-> "idle"],
     textBuffer |-> [r \in Reqs |-> ""],
     buffer |-> [r \in Reqs |-> <<>>]]

\* No response body is being read on its own.
NoBody ==
    /\ written = <<>>
    /\ tail = <<>>
    /\ offset = 0
    /\ streamBuffer = <<>>
    /\ partsLeft = <<>>
    /\ yielded = <<>>
    /\ returned = FALSE

Mounted ==
    /\ messages = InitialState.messages
    /\ isStreaming = InitialState.isStreaming
    /\ phases = InitialState.phases
    /\ pc = InitialState.pc
    /\ textBuffer = InitialState.textBuffer
    /\ buffer = InitialState.buffer
    /\ calls = 0
    /\ wire = [r \in Reqs |-> <<>>]
    /\ netEvents = 0
    /\ serverOpen = [r \in Reqs |-> FALSE]
    /\ history = [r \in Reqs |-> <<>>]
    /\ skipStage = [r \in Reqs |-> 0]
    /\ stepLog = [r \in Reqs |-> <<>>]
    /\ alt = [w \in AltRuns |-> InitialState]
    /\ requestHistory = [r \in Reqs |-> <<>>]
    /\ closure = [messages |-> InitialState.messages, isStreaming |-> InitialState.isStreaming]
    /\ opc = "idle"
    /\ iteration = 0
    /\ requested = <<>>
    /\ emitted = <<>>
    /\ trace = <<>>
    /\ campaigns = <<>>
    /\ results = <<>>

Init == Mounted /\ NoBody

\* --- the history of a call: the token text handed to its loop, run by run,
\* and between the runs the other events that touch the message, in order.

Run(text) == [k |-> "run", text |-> text]
Thrown(message) == [k |-> "thrown", message |-> message]
Ended == [k |-> "ended"]

Record(h, event) ==
    LET type == TypeOf(event)
    IN  CASE type = "token" ->
                IF h # <<>> /\ Last(h).k = "run"
                THEN Front(h) \o <<Run(Last(h).text \o event.content)>>
                ELSE Append(h, Run(event.content))
          [] type \in {"audience_result", "campaign_draft", "scheduled", "done", "error"} ->
                Append(h, [k |-> "event", event |-> event])
          [] OTHER -> h

RECURSIVE RecordAll(_, _)
\* The values handed to the loop, up to the first whose handling throws.
RecordAll(h, events) ==
    IF events = <<>> THEN h
    ELSE IF ReadingTypeThrows(Head(events)) THEN Append(h, Thrown(TypeErrorMessage))
    ELSE RecordAll(Record(h, Head(events)), Tail(events))

RECURSIVE RecordSteps(_, _, _)
\* The agent_step events among the values handed to the loop, each with the
\* length of the history at its arrival.
RecordSteps(log, h, events) ==
    IF events = <<>> \/ ReadingTypeThrows(Head(events)) THEN log
    ELSE LET next == IF TypeOf(Head(events)) = "agent_step"
                     THEN Append(log, [event |-> Head(events), at |-> Len(h)])
                     ELSE log
         IN  RecordSteps(next, Record(h, Head(events)), Tail(events))

RECURSIVE Advance(_, _)
\* skipStage over the parts of one read: 1 after an event, 2 after a skipped
\* part that follows it, 3 after an event that follows that.  A value whose
\* handling throws ends the loop: the parts after it are not looked at.
Advance(stage, parts) ==
    IF parts = <<>> THEN stage
    ELSE LET y == ParsePart(Head(parts))
             next == IF y = <<>> THEN (IF stage = 1 THEN 2 ELSE stage)
                     ELSE IF y[1] \notin SSEEvents THEN stage
                     ELSE IF stage = 0 THEN 1
                     ELSE IF stage = 2 THEN 3
                     ELSE stage
         IN  IF y # <<>> /\ ReadingTypeThrows(y[1]) THEN stage
             ELSE Advance(next, Tail(parts))

\* What a render captures for send: useCallback(..., [messages, isStreaming,
\* updatePhase]).
Captured(st) == [messages |-> st.messages, isStreaming |-> st.isStreaming]

\* The component renders with the state that the step has set.
Rendered == closure' = [messages |-> messages', isStreaming |-> isStreaming']

\* The user submits `text` (handleSubmit, or a prompt of EmptyState).  The
\* component has rendered since the last change of its state, so the send
\* that is called holds the current isStreaming and messages.
Send(text) ==
    /\ calls < MaxSends
    /\ netEvents < MaxNet
    /\ LET r == calls + 1
           next == send(Code, r, text)
       IN  /\ Becomes(next)
           /\ calls' = IF next.pc[r] = "fetch" THEN r ELSE calls
           /\ serverOpen' = [serverOpen EXCEPT ![r] = next.pc[r] = "fetch"]
           /\ alt' = [w \in AltRuns |-> send(alt[w], r, text)]
           /\ requestHistory' =
                 IF next.pc[r] = "fetch"
                 THEN [requestHistory EXCEPT
                         ![r] = BuildHistory(closure.messages, UserMessage(r, text))]
                 ELSE requestHistory
    /\ UNCHANGED <<wire, netEvents, history, skipStage>>
    /\ UNCHANGED stepLog
    /\ Rendered
    /\ UNCHANGED orchVars
    /\ UNCHANGED chunkVars
    /\ UNCHANGED toolVars

\* fetch resolves with an OK response.
ResponseOk(r) ==
    /\ pc[r] = "fetch"
    /\ pc' = [pc EXCEPT ![r] = "open"]
    /\ alt' = [w \in AltRuns |-> [alt[w] EXCEPT !.pc[r] = "open"]]
    /\ UNCHANGED <<messages, isStreaming, phases, textBuffer, buffer, calls, wire, netEvents,
                   serverOpen, history, skipStage>>
    /\ UNCHANGED stepLog
    /\ UNCHANGED requestHistory
    /\ Rendered
    /\ UNCHANGED orchVars
    /\ UNCHANGED chunkVars
    /\ UNCHANGED toolVars

\* A faulty streamChat: on a non-OK response it yields a first agent_step
\* before it throws.
ResponseNotOkAfterStep(r) ==
    /\ pc[r] = "fetch"
    /\ Becomes(CatchFinally(updatePhase(Code, "analyzing", "running"), r, ApiErrorMessage))
    /\ alt' = [w \in AltRuns |-> CatchFinally(alt[w], r, ApiErrorMessage)]
    /\ serverOpen' = [serverOpen EXCEPT ![r] = FALSE]
    /\ history' = [history EXCEPT ![r] = Append(@, Thrown(ApiErrorMessage))]
    /\ netEvents' = netEvents + 1
    /\ UNCHANGED <<calls, wire, skipStage>>
    /\ UNCHANGED stepLog
    /\ UNCHANGED requestHistory
    /\ Rendered
    /\ UNCHANGED orchVars
    /\ UNCHANGED chunkVars
    /\ UNCHANGED toolVars

\* fetch resolves with a non-OK response: streamChat throws "API error".
ResponseNotOk(r) ==
    /\ pc[r] = "fetch"
    /\ Becomes(CatchFinally(Code, r, ApiErrorMessage))
    /\ alt' = [w \in AltRuns |-> CatchFinally(alt[w], r, ApiErrorMessage)]
    /\ serverOpen' = [serverOpen EXCEPT ![r] = FALSE]
    /\ history' = [history EXCEPT ![r] = Append(@, Thrown(ApiErrorMessage))]
    /\ netEvents' = netEvents + 1
    /\ UNCHANGED <<calls, wire, skipStage>>
    /\ UNCHANGED stepLog
    /\ UNCHANGED requestHistory
    /\ Rendered
    /\ UNCHANGED orchVars
    /\ UNCHANGED chunkVars
    /\ UNCHANGED toolVars

\* fetch or reader.read() rejects: the network failed.
NetworkError(r) ==
    /\ pc[r] \in {"fetch", "open"}
    /\ Becomes(CatchFinally(Code, r, NetworkErrorMessage))
    /\ alt' = [w \in AltRuns |-> CatchFinally(alt[w], r, NetworkErrorMessage)]
    /\ serverOpen' = [serverOpen EXCEPT ![r] = FALSE]
    /\ wire' = [wire EXCEPT ![r] = <<>>]
    /\ history' = [history EXCEPT ![r] = Append(@, Thrown(NetworkErrorMessage))]
    /\ netEvents' = netEvents + 1
    /\ UNCHANGED <<calls, skipStage>>
    /\ UNCHANGED stepLog
    /\ UNCHANGED requestHistory
    /\ Rendered
    /\ UNCHANGED orchVars
    /\ UNCHANGED chunkVars
    /\ UNCHANGED toolVars

\* reader.read() returns `chunk`, the first bytes of `pending`.
Consume(r, pending, k) ==
    LET chunk == SubSeq(pending, 1, k)
        parts == Front(Split(buffer[r] \o Bytes(chunk)))
    IN  /\ Becomes(ReadChunk(Code, r, Bytes(chunk), FlushThreshold))
        /\ alt' = [w \in AltRuns |->
                     IF alt[w].pc[r] = "open" /\ ChunkFor(w, chunk) # <<>>
                     THEN ReadChunk(alt[w], r, ChunkFor(w, chunk), ThresholdOf(w))
                     ELSE alt[w]]
        /\ history' = [history EXCEPT ![r] = RecordAll(@, ParseParts(parts))]
        /\ skipStage' = [skipStage EXCEPT ![r] = Advance(@, parts)]
        /\ stepLog' = [stepLog EXCEPT ![r] = RecordSteps(@, history[r], ParseParts(parts))]
        /\ wire' = [wire EXCEPT ![r] = SubSeq(pending, k + 1, Len(pending))]

\* The server writes one frame and the client reads all that is pending in
\* one chunk.  After an unterminated frame the server writes no more.  One
\* network event is kept for the end of the response.
Arrive(r, frame) ==
    /\ serverOpen[r]
    /\ pc[r] = "open"
    /\ netEvents + 1 < MaxNet
    /\ netEvents' = netEvents + 1
    /\ LET pending == wire[r] \o OnWire(frame, frame \in CorruptFrames)
       IN  Consume(r, pending, Len(pending))
    /\ serverOpen' = [serverOpen EXCEPT ![r] = frame \notin UnterminatedFrames /\ pc'[r] = "open"]
    /\ UNCHANGED calls
    /\ UNCHANGED requestHistory
    /\ Rendered
    /\ UNCHANGED orchVars
    /\ UNCHANGED chunkVars
    /\ UNCHANGED toolVars

\* The server writes one frame and the client reads only the first k bytes of
\* what is pending.
ArrivePart(r, frame, k) ==
    /\ serverOpen[r]
    /\ pc[r] = "open"
    /\ netEvents + 1 < MaxNet
    /\ netEvents' = netEvents + 1
    /\ LET pending == wire[r] \o OnWire(frame, frame \in CorruptFrames)
       IN  /\ k \in 1 .. Len(pending) - 1
           /\ Consume(r, pending, k)
    /\ serverOpen' = [serverOpen EXCEPT ![r] = frame \notin UnterminatedFrames /\ pc'[r] = "open"]
    /\ UNCHANGED calls
    /\ UNCHANGED requestHistory
    /\ Rendered
    /\ UNCHANGED orchVars
    /\ UNCHANGED chunkVars
    /\ UNCHANGED toolVars

\* reader.read() returns the next k bytes of what is pending.
Read(r, k) ==
    /\ pc[r] = "open"
    /\ k \in 1 .. Len(wire[r])
    /\ Consume(r, wire[r], k)
    /\ serverOpen' = [serverOpen EXCEPT ![r] = @ /\ pc'[r] = "open"]
    /\ UNCHANGED <<calls, netEvents>>
    /\ UNCHANGED requestHistory
    /\ Rendered
    /\ UNCHANGED orchVars
    /\ UNCHANGED chunkVars
    /\ UNCHANGED toolVars

\* reader.read() returns done: the response is over.
End(r) ==
    /\ pc[r] = "open"
    /\ wire[r] = <<>>
    /\ Becomes(StreamEnd(Code, r))
    /\ alt' = [w \in AltRuns |-> IF alt[w].pc[r] = "open" THEN StreamEnd(alt[w], r) ELSE alt[w]]
    /\ serverOpen' = [serverOpen EXCEPT ![r] = FALSE]
    /\ history' = [history EXCEPT ![r] = Append(@, Ended)]
    /\ netEvents' = netEvents + 1
    /\ UNCHANGED <<calls, wire, skipStage>>
    /\ UNCHANGED stepLog
    /\ UNCHANGED requestHistory
    /\ Rendered
    /\ UNCHANGED orchVars
    /\ UNCHANGED chunkVars
    /\ UNCHANGED toolVars

Frames == ValidFrames \cup NonEventFrames \cup CorruptFrames \cup UnterminatedFrames

\* The first frames of the scenario, written at once: a tool starts, is
\* done, and its audience is found.
ScenarioHead ==
    Frame([type |-> "agent_step", node |-> "query_crm", status |-> "running"])
        \o Frame([type |-> "agent_step", node |-> "query_crm", status |-> "done"])
        \o Frame([type |-> "audience_result", data |-> [count |-> 12, segment_id |-> "seg_1"]])

\* Frames that reach the client together.
Bursts == {ScenarioHead}

\* The frames under which the release of the lock is followed: one of each
\* way a frame can go on in send (handled, handled as terminal, thrown on,
\* skipped, left unterminated).
LockFrames ==
    {Frame([type |-> "token", content |-> "a"]), Frame(DoneEvent),
     Frame([type |-> "error", message |-> "boom"]), Frame(JsonNull),
     <<DATA, JUNK>> \o Delimiter, <<DATA, Json(DoneEvent)>>}

\* The frames whose bytes are also delivered in every split into chunks.
SplitFrames ==
    {Frame([type |-> "token", content |-> "a"]), Frame(DoneEvent), <<DATA, JUNK>> \o Delimiter}

Next ==
    \/ \E text \in InputTexts : Send(text)
    \/ \E r \in Reqs : ResponseOk(r)
    \/ \E r \in Reqs : ResponseNotOk(r)
    \/ \E r \in Reqs : NetworkError(r)
    \/ \E r \in Reqs, frame \in Frames \cup Bursts : Arrive(r, frame)
    \/ \E r \in Reqs, frame \in SplitFrames, k \in 1 .. 4 : ArrivePart(r, frame, k)
    \/ \E r \in Reqs, k \in 1 .. 4 : Read(r, k)
    \/ \E r \in Reqs : End(r)

Spec == Init /\ [][Next]_vars

\* The network keeps going: a response that is awaited or open is sooner or
\* later answered, delivered further, broken or ended.
Network ==
    \E r \in Reqs :
        \/ ResponseOk(r) \/ ResponseNotOk(r) \/ NetworkError(r) \/ End(r)
        \/ \E k \in 1 .. 4 : Read(r, k)

FairNext ==
    \/ \E text \in InputTexts : Send(text)
    \/ \E r \in Reqs : ResponseOk(r)
    \/ \E r \in Reqs : ResponseNotOk(r)
    \/ \E r \in Reqs : NetworkError(r)
    \/ \E r \in Reqs, frame \in LockFrames : Arrive(r, frame)
    \/ \E r \in Reqs, frame \in SplitFrames, k \in 1 .. 4 : ArrivePart(r, frame, k)
    \/ \E r \in Reqs, k \in 1 .. 4 : Read(r, k)
    \/ \E r \in Reqs : End(r)

FairSpec == Init /\ [][FairNext]_vars /\ WF_vars(Network)

\* --- send called before the component has rendered again

\* send is called with `text` as the latest render holds it: its guard
\* reads the isStreaming of that render and its history is built from the
\* messages of that render; the updaters work on the current state.  The
\* component does not render before the next step.
Invoke(text) ==
    /\ calls < MaxSends
    /\ netEvents < MaxNet
    /\ LET r == calls + 1
           seen == [Code EXCEPT !.isStreaming = closure.isStreaming]
       IN  /\ send(seen, r, text) # seen
           /\ Becomes(StartSend(Code, r, text))
           /\ calls' = r
           /\ serverOpen' = [serverOpen EXCEPT ![r] = TRUE]
           /\ alt' = [w \in AltRuns |-> StartSend(alt[w], r, text)]
           /\ requestHistory' =
                 [requestHistory EXCEPT ![r] = BuildHistory(closure.messages, UserMessage(r, text))]
    /\ UNCHANGED <<wire, netEvents, history, skipStage, stepLog, closure>>
    /\ UNCHANGED orchVars
    /\ UNCHANGED chunkVars
    /\ UNCHANGED toolVars

\* The component renders after a call of send was accepted.
Rerender ==
    /\ closure # Captured(Code)
    /\ closure' = Captured(Code)
    /\ UNCHANGED <<messages, isStreaming, phases, pc, textBuffer, buffer, calls, wire, netEvents,
                   serverOpen, history, skipStage, stepLog, alt, requestHistory>>
    /\ UNCHANGED orchVars
    /\ UNCHANGED chunkVars
    /\ UNCHANGED toolVars

RenderNext ==
    \/ \E text \in InputTexts : Invoke(text)
    \/ Rerender
    \/ \E r \in Reqs : ResponseOk(r)
    \/ \E r \in Reqs : ResponseNotOk(r)
    \/ \E r \in Reqs : NetworkError(r)
    \/ \E r \in Reqs, frame \in LockFrames : Arrive(r, frame)
    \/ \E r \in Reqs : End(r)

RenderSpec == Init /\ [][RenderNext]_vars

\* --- the scenario of one tool call and an answer in several tokens

\* The answer of the scenario in three tokens, written at once: the first
\* two make the pending text pass the threshold, the third stays pending.
ScenarioTokens ==
    Frame([type |-> "token", content |-> T30])
        \o Frame([type |-> "token", content |-> T30])
        \o Frame([type |-> "token", content |-> "a"])

\* What the server writes in the scenario: its frames one by one, its first
\* frames at once, its tokens at once, and all of these at once.
ScenarioFrames ==
    {Frame([type |-> "agent_step", node |-> "query_crm", status |-> s]) : s \in {"running", "done"}}
        \cup {Frame([type |-> "audience_result", data |-> d]) : d \in AudienceData}
        \cup {Frame([type |-> "token", content |-> c]) : c \in TokenContents}
        \cup {Frame(DoneEvent), ScenarioHead, ScenarioTokens, ScenarioHead \o ScenarioTokens}

ScenarioNext ==
    \/ \E text \in InputTexts : Send(text)
    \/ \E r \in Reqs : ResponseOk(r)
    \/ \E r \in Reqs, frame \in ScenarioFrames : Arrive(r, frame)
    \/ \E r \in Reqs : End(r)

ScenarioSpec == Init /\ [][ScenarioNext]_vars

\* ------------------------------------- the orchestrator and event emitter
\* The server side of a request, as the specification describes it (4.1
\* Orchestrator, 4.2 Event Emitter, 5 Cancellation, 7 Error handling).

Tools == {"query_crm", "generate_campaign_copy", "schedule_campaign"}

\* The oracle's answers that request tools: non-empty ordered lists.
ToolRequests ==
    {<<"query_crm">>, <<"query_crm", "generate_campaign_copy">>, <<"schedule_campaign">>}

\* The typed structured-result event of a tool that completed.
ResultEvent(tool) ==
    CASE tool = "query_crm" ->
            [type |-> "audience_result", data |-> CHOOSE d \in AudienceData : d.count > 0]
      [] tool = "generate_campaign_copy" ->
            [type |-> "campaign_draft", data |-> CHOOSE d \in CampaignData : TRUE]
      [] tool = "schedule_campaign" ->
            [type |-> "scheduled", data |-> CHOOSE d \in ScheduleData : TRUE]

AgentStep(node, status) == [type |-> "agent_step", node |-> node, status |-> status]
Token(content) == [type |-> "token", content |-> content]
ErrorEvent(message) == [type |-> "error", message |-> message]

\* The messages of the three fatal conditions.
BoundMessage == "iteration bound exceeded"
OracleMessage == "oracle failed"
DispatcherMessage == "dispatcher failed"

Emit(events) == emitted' = emitted \o events

CountOf(type) == Cardinality({i \in DOMAIN emitted : emitted[i].type = type})

\* The token events at the end of the stream so far.
TrailingTokens ==
    Cardinality({i \in DOMAIN emitted :
                    \A j \in i .. Len(emitted) : emitted[j].type = "token"})

\* The request body is valid: the streamed response begins.
AcceptRequest ==
    /\ opc = "idle"
    /\ opc' = "oracle"
    /\ UNCHANGED <<iteration, requested, emitted>>
    /\ UNCHANGED trace
    /\ UNCHANGED clientVars
    /\ UNCHANGED chunkVars
    /\ UNCHANGED toolVars

\* The request body is malformed: rejected before any streaming.
RejectRequest ==
    /\ opc = "idle"
    /\ opc' = "rejected"
    /\ UNCHANGED <<iteration, requested, emitted>>
    /\ UNCHANGED trace
    /\ UNCHANGED clientVars
    /\ UNCHANGED chunkVars
    /\ UNCHANGED toolVars

\* A faulty loop: the oracle's requests are followed without a bound.
OracleRequestsToolsUnbounded(request) ==
    /\ opc = "oracle"
    /\ iteration' = iteration + 1
    /\ requested' = request
    /\ opc' = "dispatch"
    /\ UNCHANGED emitted
    /\ UNCHANGED trace
    /\ UNCHANGED clientVars
    /\ UNCHANGED chunkVars
    /\ UNCHANGED toolVars

\* The oracle requests tools, within the iteration bound.
OracleRequestsTools(request) ==
    /\ opc = "oracle"
    /\ iteration < MaxIterations
    /\ iteration' = iteration + 1
    /\ requested' = request
    /\ opc' = "dispatch"
    /\ UNCHANGED emitted
    /\ UNCHANGED trace
    /\ UNCHANGED clientVars
    /\ UNCHANGED chunkVars
    /\ UNCHANGED toolVars

\* The oracle requests tools once more when the bound is used up: fatal.
IterationBoundExceeded ==
    /\ opc = "oracle"
    /\ iteration = MaxIterations
    /\ Emit(<<ErrorEvent(BoundMessage)>>)
    /\ opc' = "failed"
    /\ UNCHANGED <<iteration, requested>>
    /\ UNCHANGED trace
    /\ UNCHANGED clientVars
    /\ UNCHANGED chunkVars
    /\ UNCHANGED toolVars

\* The oracle produces one fragment of its final text.
OracleFragment(content) ==
    /\ opc \in {"oracle", "answer"}
    /\ TrailingTokens < MaxFragments
    /\ Emit(<<Token(content)>>)
    /\ opc' = "answer"
    /\ UNCHANGED <<iteration, requested>>
    /\ UNCHANGED trace
    /\ UNCHANGED clientVars
    /\ UNCHANGED chunkVars
    /\ UNCHANGED toolVars

\* The oracle's answer requests no tool and is complete: the loop ends.
LoopTerminates ==
    /\ opc \in {"oracle", "answer"}
    /\ Emit(<<DoneEvent>>)
    /\ opc' = "closed"
    /\ UNCHANGED <<iteration, requested>>
    /\ UNCHANGED trace
    /\ UNCHANGED clientVars
    /\ UNCHANGED chunkVars
    /\ UNCHANGED toolVars

\* A faulty abort: the error ends the stream, no done follows.
OracleFatalEndsStream ==
    /\ opc \in {"oracle", "answer"}
    /\ Emit(<<ErrorEvent(OracleMessage)>>)
    /\ opc' = "closed"
    /\ UNCHANGED <<iteration, requested>>
    /\ UNCHANGED trace
    /\ UNCHANGED clientVars
    /\ UNCHANGED chunkVars
    /\ UNCHANGED toolVars

\* The oracle fails beyond recovery.
OracleFatal ==
    /\ opc \in {"oracle", "answer"}
    /\ Emit(<<ErrorEvent(OracleMessage)>>)
    /\ opc' = "failed"
    /\ UNCHANGED <<iteration, requested>>
    /\ UNCHANGED trace
    /\ UNCHANGED clientVars
    /\ UNCHANGED chunkVars
    /\ UNCHANGED toolVars

\* The dispatch of the next requested tool starts.
DispatchStart ==
    /\ opc = "dispatch"
    /\ Emit(<<AgentStep(Head(requested), "running")>>)
    /\ opc' = "tool"
    /\ UNCHANGED <<iteration, requested>>
    /\ UNCHANGED trace
    /\ UNCHANGED clientVars
    /\ UNCHANGED chunkVars
    /\ UNCHANGED toolVars

\* A tool's result in the trace: success or failure.
ToolResult(tool, ok) == [tool |-> tool, ok |-> ok]

\* Where the loop goes on after a tool's result is appended to the trace.
AfterTool == IF Tail(requested) = <<>> THEN "oracle" ELSE "dispatch"

\* A faulty emitter: the result is sent before the phase is done.
DispatchSuccessResultFirst ==
    /\ opc = "tool"
    /\ Emit(<<ResultEvent(Head(requested)), AgentStep(Head(requested), "done")>>)
    /\ requested' = Tail(requested)
    /\ opc' = AfterTool
    /\ UNCHANGED iteration
    /\ trace' = Append(trace, ToolResult(Head(requested), TRUE))
    /\ UNCHANGED clientVars
    /\ UNCHANGED chunkVars
    /\ UNCHANGED toolVars

\* The tool completes: its phase is done, then its typed result.
DispatchSuccess ==
    /\ opc = "tool"
    /\ Emit(<<AgentStep(Head(requested), "done"), ResultEvent(Head(requested))>>)
    /\ requested' = Tail(requested)
    /\ opc' = AfterTool
    /\ UNCHANGED iteration
    /\ trace' = Append(trace, ToolResult(Head(requested), TRUE))
    /\ UNCHANGED clientVars
    /\ UNCHANGED chunkVars
    /\ UNCHANGED toolVars

\* A faulty dispatch: a tool's failure ends the request with an error event.
DispatchFailureAborts ==
    /\ opc = "tool"
    /\ Emit(<<AgentStep(Head(requested), "error"), ErrorEvent(DispatcherMessage)>>)
    /\ requested' = <<>>
    /\ opc' = "failed"
    /\ UNCHANGED <<iteration, trace>>
    /\ UNCHANGED clientVars
    /\ UNCHANGED chunkVars
    /\ UNCHANGED toolVars

\* The tool fails: its phase is in error, no result, the loop goes on.
DispatchFailure ==
    /\ opc = "tool"
    /\ Emit(<<AgentStep(Head(requested), "error")>>)
    /\ requested' = Tail(requested)
    /\ opc' = AfterTool
    /\ UNCHANGED iteration
    /\ trace' = Append(trace, ToolResult(Head(requested), FALSE))
    /\ UNCHANGED clientVars
    /\ UNCHANGED chunkVars
    /\ UNCHANGED toolVars

\* The dispatcher fails beyond recovery: the loop is short-circuited.
DispatchFatal ==
    /\ opc = "tool"
    /\ Emit(<<ErrorEvent(DispatcherMessage)>>)
    /\ requested' = <<>>
    /\ opc' = "failed"
    /\ UNCHANGED iteration
    /\ UNCHANGED trace
    /\ UNCHANGED clientVars
    /\ UNCHANGED chunkVars
    /\ UNCHANGED toolVars

\* A faulty release: the stream is closed after the error, without done.
ReleaseWithoutDone ==
    /\ opc = "failed"
    /\ opc' = "closed"
    /\ UNCHANGED <<iteration, requested, emitted>>
    /\ UNCHANGED trace
    /\ UNCHANGED clientVars
    /\ UNCHANGED chunkVars
    /\ UNCHANGED toolVars

\* After the error event a done event still follows.
ReleaseAfterError ==
    /\ opc = "failed"
    /\ Emit(<<DoneEvent>>)
    /\ opc' = "closed"
    /\ UNCHANGED <<iteration, requested>>
    /\ UNCHANGED trace
    /\ UNCHANGED clientVars
    /\ UNCHANGED chunkVars
    /\ UNCHANGED toolVars

\* The consumer disconnects before the terminal event: no further events.
Cancel ==
    /\ opc \in {"oracle", "answer", "dispatch", "tool"}
    /\ opc' = "cancelled"
    /\ requested' = <<>>
    /\ UNCHANGED <<iteration, emitted>>
    /\ UNCHANGED trace
    /\ UNCHANGED clientVars
    /\ UNCHANGED chunkVars
    /\ UNCHANGED toolVars

OrchNext ==
    \/ AcceptRequest
    \/ RejectRequest
    \/ \E request \in ToolRequests : OracleRequestsTools(request)
    \/ IterationBoundExceeded
    \/ \E content \in {"a", "b"} : OracleFragment(content)
    \/ LoopTerminates
    \/ OracleFatal
    \/ DispatchStart
    \/ DispatchSuccess
    \/ DispatchFailure
    \/ DispatchFatal
    \/ ReleaseAfterError
    \/ Cancel

OrchSpec == Init /\ [][OrchNext]_vars

IsResult(e) == e.type \in {"audience_result", "campaign_draft", "scheduled"}
IsTerminal(e) == e.type \in {"done", "error"}

\* The place in the stream where the dispatch that ended at place i began.
RunningBefore(i) ==
    LET node == emitted[i].node
        starts == {k \in 1 .. i - 1 : emitted[k] = AgentStep(node, "running")}
    IN  IF starts = {} THEN 0 ELSE CHOOSE k \in starts : \A l \in starts : l <= k

\* The longest list of tools the oracle requests in one turn.
MaxRequestLen == CHOOSE n \in {Len(q) : q \in ToolRequests} : \A q \in ToolRequests : Len(q) <= n

\* The steps an oracle turn can still be followed by when it requests no
\* tool: the fragments of its text, a failure, the release.
AnswerSteps == MaxFragments - TrailingTokens + 2
\* The steps of one round: the request, and two steps for each tool.
RoundSteps == 1 + 2 * MaxRequestLen
\* An upper bound of the steps the request can still take.
OrchMeasure ==
    LET atOracle == AnswerSteps + 1 + (MaxIterations - iteration) * RoundSteps
    IN  CASE opc = "idle" -> atOracle + 1
          [] opc = "oracle" -> atOracle
          [] opc = "dispatch" -> atOracle + 2 * Len(requested)
          [] opc = "tool" -> atOracle + 2 * Len(requested) - 1
          [] opc = "answer" -> AnswerSteps
          [] opc = "failed" -> 1
          [] OTHER -> 0

\* The server keeps running the request: a step that can be taken is taken.
OrchFairSpec == OrchSpec /\ WF_vars(OrchNext)

\* ------------------------------------------ streamChat on a whole body
\* The generator and the loop that consumes it: the body of one response,
\* written by the server as a list of frames, is read in chunks of any
\* sizes; the parts of a read are gone through one by one, and a value
\* whose handling throws in the loop of send closes the generator.

\* What the server writes, with the values it means by it.
Written(bytes, yields) == [bytes |-> bytes, yields |-> yields]

\* Frames of a body: events, an event whose JSON text a read may end in,
\* an event whose "data: " prefix a read may end in, a value that is no
\* event, parts that do not parse, and a frame after one more line feed.
BodyFrames ==
    {Written(Frame(Token("a")), <<Token("a")>>),
     Written(Frame(DoneEvent), <<DoneEvent>>),
     Written(<<DATA, JsonHead(ErrorEvent("boom")), JsonTail(ErrorEvent("boom"))>> \o Delimiter,
             <<ErrorEvent("boom")>>),
     Written(<<DATA_HEAD, DATA_TAIL, Json(Token(T30))>> \o Delimiter, <<Token(T30)>>),
     Written(Frame(JsonNull), <<JsonNull>>),
     Written(<<DATA, JUNK>> \o Delimiter, <<>>),
     Written(<<JUNK>> \o Delimiter, <<>>),
     Written(<<NL>> \o Frame(AgentStep("query_crm", "running")),
             <<AgentStep("query_crm", "running")>>)}

\* Last bytes of a body that no delimiter follows.
BodyTails == {<<>>, <<DATA, Json(DoneEvent)>>}

RECURSIVE BytesOf(_)
BytesOf(ws) == IF ws = <<>> THEN <<>> ELSE Head(ws).bytes \o BytesOf(Tail(ws))

RECURSIVE YieldsOf(_)
YieldsOf(ws) == IF ws = <<>> THEN <<>> ELSE Head(ws).yields \o YieldsOf(Tail(ws))

\* The bytes of the body.
Stream == BytesOf(written) \o tail

\* The frames of the body whose last byte has been read.
WhollyRead ==
    LET ns == {n \in 0 .. Len(written) : Len(BytesOf(SubSeq(written, 1, n))) <= offset}
    IN  SubSeq(written, 1, CHOOSE n \in ns : \A m \in ns : m <= n)

\* A body to read, nothing of it read yet.
AnyBody ==
    /\ written \in UNION {[1 .. n -> BodyFrames] : n \in 0 .. MaxFrames}
    /\ tail \in BodyTails
    /\ offset = 0
    /\ streamBuffer = <<>>
    /\ partsLeft = <<>>
    /\ yielded = <<>>
    /\ returned = FALSE

BodyInit == Mounted /\ AnyBody

\* reader.read() returns the next k bytes of the body: the buffer grows and
\* is split, its last part is kept, the parts before it are to be looked at.
ReadBytes(k) ==
    /\ ~returned
    /\ partsLeft = <<>>
    /\ k \in 1 .. Len(Stream) - offset
    /\ LET chunk == SubSeq(Stream, offset + 1, offset + k)
           parts == Split(streamBuffer \o chunk)
       IN  /\ streamBuffer' = Popped(parts)
           /\ partsLeft' = Front(parts)
    /\ offset' = offset + k
    /\ UNCHANGED <<written, tail, yielded, returned>>
    /\ UNCHANGED <<clientVars, orchVars, toolVars>>

\* The part yields a value whose handling in the loop of send throws.
HandlingThrows(part) ==
    LET values == ParsePart(part) IN values # <<>> /\ ReadingTypeThrows(values[1])

\* One turn of for (const part of parts): the part is skipped, or its value
\* is yielded and the loop of send handles it and asks for the next.
NextPart ==
    /\ ~returned
    /\ partsLeft # <<>>
    /\ ~HandlingThrows(Head(partsLeft))
    /\ yielded' = yielded \o ParsePart(Head(partsLeft))
    /\ partsLeft' = Tail(partsLeft)
    /\ UNCHANGED <<written, tail, offset, streamBuffer, returned>>
    /\ UNCHANGED <<clientVars, orchVars, toolVars>>

\* The value of the part is yielded and its handling throws (event.type of
\* null, Chat.tsx:105): the for-await loop is left, which closes the
\* generator; the parts that are left are not looked at, nothing more is
\* read.
ConsumerThrows ==
    /\ ~returned
    /\ partsLeft # <<>>
    /\ HandlingThrows(Head(partsLeft))
    /\ yielded' = yielded \o ParsePart(Head(partsLeft))
    /\ partsLeft' = <<>>
    /\ returned' = TRUE
    /\ UNCHANGED <<written, tail, offset, streamBuffer>>
    /\ UNCHANGED <<clientVars, orchVars, toolVars>>

\* reader.read() returns done: the generator returns.
ReadDone ==
    /\ ~returned
    /\ partsLeft = <<>>
    /\ offset = Len(Stream)
    /\ returned' = TRUE
    /\ UNCHANGED <<written, tail, offset, streamBuffer, partsLeft, yielded>>
    /\ UNCHANGED <<clientVars, orchVars, toolVars>>

\* The longest body, in bytes.
MaxBytes == 5 * MaxFrames + 2

BodyNext ==
    \/ \E k \in 1 .. MaxBytes : ReadBytes(k)
    \/ NextPart
    \/ ConsumerThrows
    \/ ReadDone

BodySpec == BodyInit /\ [][BodyNext]_vars

\* ------------------------------------------------------ the schedule tool
\* The tool behind schedule_campaign, as the specification describes it
\* (3 ScheduleResult, 8 property 4): scheduling is idempotent.

Segments == {"seg_1", "seg_2"}
CampaignParameters ==
    {[event_name |-> "Jazz Night", send_at |-> "2025-04-14T10:00:00"],
     [event_name |-> "Jazz Night", send_at |-> "2025-04-21T10:00:00"]}

\* The identifier of the n-th campaign created; all are distinct.
CampaignId(n) == n

\* The campaigns of the store scheduled for the segment with the parameters.
Existing(store, segment, parameters) ==
    {i \in DOMAIN store :
        /\ store[i].segment_id = segment
        /\ store[i].event_name = parameters.event_name
        /\ store[i].send_at = parameters.send_at}

NewCampaign(store, segment, parameters) ==
    [campaign_id |-> CampaignId(Len(store) + 1), segment_id |-> segment,
     event_name |-> parameters.event_name, send_at |-> parameters.send_at,
     status |-> "scheduled"]

\* A faulty tool: every invocation creates a campaign.
scheduleAlwaysCreates(store, segment, parameters) ==
    [campaigns |-> Append(store, NewCampaign(store, segment, parameters)),
     result |-> NewCampaign(store, segment, parameters)]

\* The store after the invocation, and the ScheduleResult returned.
schedule(store, segment, parameters) ==
    LET existing == Existing(store, segment, parameters)
    IN  IF existing # {}
        THEN [campaigns |-> store, result |-> store[CHOOSE i \in existing : TRUE]]
        ELSE [campaigns |-> Append(store, NewCampaign(store, segment, parameters)),
              result |-> NewCampaign(store, segment, parameters)]

\* One invocation of the tool.
Schedule(segment, parameters) ==
    /\ Len(results) < MaxSchedules
    /\ LET out == schedule(campaigns, segment, parameters)
       IN  /\ campaigns' = out.campaigns
           /\ results' = Append(results, [segment |-> segment, parameters |-> parameters,
                                          result |-> out.result])
    /\ UNCHANGED <<clientVars, orchVars, chunkVars>>

ToolNext == \E segment \in Segments, parameters \in CampaignParameters : Schedule(segment, parameters)

ToolSpec == Init /\ [][ToolNext]_vars

\* Two invocations were made with identical segment and parameters.
SameInput(a, b) == a.segment = b.segment /\ a.parameters = b.parameters

\* ------------------------------------------------------------ rendering

\* AgentPipeline.tsx:13  const PHASES (the id of each)
PHASES == <<"analyzing", "audience_research", "strategy", "copy_writing", "scheduling">>

\* Object.values(activePhases).some((s) => s !== "idle")
hasActivity(activePhases) == \E n \in DOMAIN activePhases : activePhases[n] # "idle"

\* activePhases[phase.id] ?? "idle"
StatusShown(activePhases, id) == IF id \in DOMAIN activePhases THEN activePhases[id] ELSE "idle"

\* What AgentPipeline renders: nothing, or the status of each phase in order.
AgentPipeline(activePhases) ==
    IF ~hasActivity(activePhases) THEN [shown |-> FALSE]
    ELSE [shown |-> TRUE, status |-> [i \in DOMAIN PHASES |-> StatusShown(activePhases, PHASES[i])]]

\* What is rendered for nothing.
Null == [element |-> "null"]

\* A faulty MessageBubble: the card of an empty audience is rendered too.
RenderContentAlways(content, i) ==
    CASE content.kind = "text" -> [element |-> "div", key |-> i, text |-> content.text]
      [] content.kind = "audience" -> [element |-> "AudienceCard", key |-> i, data |-> content.data]
      [] content.kind = "campaign" -> [element |-> "CampaignPreview", key |-> i, data |-> content.data]
      [] content.kind = "scheduled" -> [element |-> "div", key |-> i, data |-> content.data]
      [] OTHER -> Null

\* The body of message.contents.map((content, i) => ...) in MessageBubble.
RenderContent(content, i) ==
    CASE content.kind = "text" -> [element |-> "div", key |-> i, text |-> content.text]
      [] content.kind = "audience" ->
            IF content.data.count = 0 THEN Null
            ELSE [element |-> "AudienceCard", key |-> i, data |-> content.data]
      [] content.kind = "campaign" -> [element |-> "CampaignPreview", key |-> i, data |-> content.data]
      [] content.kind = "scheduled" -> [element |-> "div", key |-> i, data |-> content.data]
      [] OTHER -> Null

\* What MessageBubble renders for the contents of a message, place by place.
MessageBubble(contents) == [i \in DOMAIN contents |-> RenderContent(contents[i], i)]

IsEmptyAudience(b) == b.kind = "audience" /\ b.data.count = 0

\* The contents with every empty audience given a count above zero.
WithAudience(contents) ==
    [i \in DOMAIN contents |->
        IF IsEmptyAudience(contents[i]) THEN [contents[i] EXCEPT !.data.count = 1]
        ELSE contents[i]]

\* The phase of the pipeline that stands for a tool (specification, 6).
ToolPhase(node) ==
    CASE node = "query_crm" -> "audience_research"
      [] node = "generate_campaign_copy" -> "copy_writing"
      [] node = "schedule_campaign" -> "scheduling"
      [] OTHER -> node

\* -------------------------------------------------- reading a transcript

Active(r) == pc[r] \in {"fetch", "open"}

\* The contents of the assistant message of call r, in a state record.
ContentsIn(st, r) ==
    LET at == {i \in DOMAIN st.messages : st.messages[i].id = AssistantIdOf(r)}
    IN  IF at = {} THEN <<>> ELSE st.messages[CHOOSE i \in at : TRUE].contents

Contents(r) == ContentsIn(Code, r)

IsText(b) == b.kind = "text"
IsStructured(b) == b.kind # "text"

\* The blocks that are not text, in order.
NonText(blocks) == SelectSeq(blocks, IsStructured)

RECURSIVE GapTexts(_)
\* The text between the structured blocks: one string before the first,
\* one between each two neighbours, one after the last.
GapTexts(blocks) ==
    IF blocks = <<>> THEN <<"">>
    ELSE LET rest == GapTexts(Tail(blocks))
         IN  IF IsText(Head(blocks))
             THEN <<Head(blocks).text \o Head(rest)>> \o Tail(rest)
             ELSE <<"">> \o rest

\* --- what the history of a call says its message should hold

BlockOf(event) ==
    CASE event.type = "audience_result" -> [kind |-> "audience", data |-> event.data]
      [] event.type = "campaign_draft" -> [kind |-> "campaign", data |-> event.data]
      [] event.type = "scheduled" -> [kind |-> "scheduled", data |-> event.data]

IsStructuredEntry(e) == e.k = "event" /\ e.event \in StructuredEvents
IsErrorEntry(e) == e.k = "event" /\ e.event.type = "error"
IsDoneEntry(e) == e.k = "event" /\ e.event.type = "done"
\* An entry that bounds a run of tokens.
IsBounding(e) == e.k = "event"

\* The text an entry puts into the message.
TextOf(e) ==
    CASE e.k = "run" -> e.text
      [] e.k = "thrown" -> ConnectionErrorPrefix \o e.message
      [] IsErrorEntry(e) -> ErrorPrefix \o e.event.message
      [] OTHER -> ""

RECURSIVE ExpectedGaps(_)
ExpectedGaps(h) ==
    IF h = <<>> THEN <<"">>
    ELSE LET rest == ExpectedGaps(Tail(h))
         IN  IF IsStructuredEntry(Head(h)) THEN <<"">> \o rest
             ELSE <<TextOf(Head(h)) \o Head(rest)>> \o Tail(rest)

RECURSIVE ExpectedStructured(_)
ExpectedStructured(h) ==
    IF h = <<>> THEN <<>>
    ELSE IF IsStructuredEntry(Head(h))
         THEN <<BlockOf(Head(h).event)>> \o ExpectedStructured(Tail(h))
         ELSE ExpectedStructured(Tail(h))

LastEntry(r) == Last(history[r])
DoneHandled(r) == \E i \in DOMAIN history[r] : IsDoneEntry(history[r][i])
ErrorHandled(r) == \E i \in DOMAIN history[r] : IsErrorEntry(history[r][i])

RECURSIVE Concats(_)
\* The texts that up to n tokens make.
Concats(n) ==
    IF n = 0 THEN {""}
    ELSE LET shorter == Concats(n - 1) IN shorter \cup {t \o c : t \in shorter, c \in TokenContents}

\* The texts that tell the user of a failure: an error event's, or the
\* connection error's, with the token text that a later flush may add.
FailureTexts ==
    LET heads == {ErrorPrefix \o m : m \in ErrorMessages}
                    \cup {ConnectionErrorPrefix \o m :
                            m \in {ApiErrorMessage, NetworkErrorMessage, TypeErrorMessage}}
    IN  {h \o t : h \in heads, t \in Concats(MaxNet)}

TellsOfFailure(b) == IsText(b) /\ b.text \in FailureTexts

\* ------------------------------------------------------------- the claims

(* C1: streaming lock release.  Whenever a call of send has passed the guard *)
(* and set isStreaming, then whichever way its response goes on (a done      *)
(* event, an error event, a refused request, a thrown exception, the         *)
(* connection closing), a state follows in which no call is under way, each  *)
(* accepted call having reached its end, and isStreaming is false again, so  *)
(* that send is accepted anew.  Checked under FairSpec: the network does not *)
(* stall.                                                                    *)
C1_LockReleased ==
    (\E r \in Reqs : Active(r)) ~> (~isStreaming /\ \A r \in Reqs : pc[r] \in {"idle", "finished"})

\* A first call that saw done and then the end of its response, and a second
\* call accepted after it.
C1_Witness == calls = 2 /\ DoneHandled(1) /\ LastEntry(1) = Ended /\ Active(2)

(* C2: text concatenation.  Whenever the loop of a call has just handled a   *)
(* structured or terminal event, nothing is pending in textBuffer and the    *)
(* text of the message between its structured blocks is, gap by gap, the     *)
(* concatenation of the token fragments received between the corresponding   *)
(* events, in arrival order, each once.                                      *)
C2_TextConcatenation ==
    \A r \in Reqs :
        (history[r] # <<>> /\ IsBounding(LastEntry(r))) =>
            /\ textBuffer[r] = ""
            /\ GapTexts(Contents(r)) = ExpectedGaps(history[r])

\* Two structured events with a run of tokens between them, all handled.
C2_Witness ==
    \E r \in Reqs :
        /\ Len(history[r]) = 3
        /\ IsStructuredEntry(history[r][1])
        /\ history[r][2].k = "run" /\ history[r][2].text # ""
        /\ IsStructuredEntry(history[r][3])

(* C3: total ordering of blocks.  At any time the blocks of the assistant    *)
(* message that are not text are exactly the blocks of the audience_result,  *)
(* campaign_draft and scheduled events received, one per event and in their  *)
(* order; the same holds with a flush on every token and with no size flush. *)
C3_BlockOrder ==
    \A r \in Reqs :
        /\ NonText(Contents(r)) = ExpectedStructured(history[r])
        /\ \A w \in {"flushAlways", "flushNever"} :
              NonText(ContentsIn(alt[w], r)) = ExpectedStructured(history[r])

\* Two different structured events around a token, handled.
C3_Witness ==
    \E r \in Reqs :
        /\ Len(ExpectedStructured(history[r])) = 2
        /\ ExpectedStructured(history[r])[1] # ExpectedStructured(history[r])[2]
        /\ Len(Contents(r)) = 3

(* C4: threshold independence.  When the last event handled is done or       *)
(* error, the assistant message is the same for the threshold 50, for a      *)
(* flush on every token and for no size flush at all.                        *)
C4_ThresholdIndependence ==
    \A r \in Reqs :
        (history[r] # <<>> /\ (IsDoneEntry(LastEntry(r)) \/ IsErrorEntry(LastEntry(r)))) =>
            \A w \in {"flushAlways", "flushNever"} :
                /\ ContentsIn(alt[w], r) = Contents(r)
                /\ alt[w].textBuffer[r] = textBuffer[r]

\* A done after tokens that the three thresholds had flushed differently:
\* the code once, by size, the others on every token and never.
C4_Witness ==
    \E r \in Reqs :
        /\ history[r] # <<>> /\ IsDoneEntry(LastEntry(r))
        /\ Len(history[r]) = 2
        /\ history[r][1].k = "run" /\ Len(history[r][1].text) > FlushThreshold

(* C5: malformed-frame resilience.  The run on the same bytes without the    *)
(* corrupt frames (parts without the "data: " prefix or with a payload that  *)
(* is not JSON) agrees with the code at every moment on the transcript, the  *)
(* phase map, the lock and where each call stands: a corrupt frame neither   *)
(* ends the response nor changes what the frames around it produce.          *)
C5_CorruptFrameDropped ==
    /\ alt["clean"].messages = messages
    /\ alt["clean"].phases = phases
    /\ alt["clean"].isStreaming = isStreaming
    /\ alt["clean"].pc = pc
    /\ alt["clean"].textBuffer = textBuffer

\* An event, a corrupt part skipped after it, an event after that.
C5_Witness == \E r \in Reqs : skipStage[r] = 3 /\ Contents(r) # <<>>

(* C6: done closes the turn.  Once a done event has been handled for a call, *)
(* its assistant message is never modified again.                            *)
C6_DoneCloses == [][\A r \in Reqs : DoneHandled(r) => Contents(r)' = Contents(r)]_vars

(* C7: every failure becomes visible.  When a call has ended otherwise than  *)
(* after a done event without error (an error event, a refused request, a    *)
(* thrown exception, the connection closing with no terminal event), its     *)
(* assistant message holds a block that tells of the failure.                *)
C7_FailureVisible ==
    \A r \in Reqs :
        (pc[r] = "finished" /\ ~(DoneHandled(r) /\ ~ErrorHandled(r) /\ LastEntry(r) = Ended)) =>
            \E i \in DOMAIN Contents(r) : TellsOfFailure(Contents(r)[i])

(* C8: transport failure handling.  When the iterator of a call has thrown,  *)
(* the call is finished with nothing pending in textBuffer, the last block   *)
(* of its message is one text block with the connection error, all text      *)
(* received before it stands before it, gap by gap and in order, the         *)
(* structured blocks are those received, and while no later call has been    *)
(* accepted isStreaming is false.                                            *)
C8_TransportFailure ==
    \A r \in Reqs :
        (history[r] # <<>> /\ LastEntry(r).k = "thrown") =>
            /\ pc[r] = "finished"
            /\ textBuffer[r] = ""
            /\ Contents(r) # <<>>
            /\ Last(Contents(r)) = TextBlock(ConnectionErrorPrefix \o LastEntry(r).message)
            /\ GapTexts(Contents(r)) = ExpectedGaps(history[r])
            /\ NonText(Contents(r)) = ExpectedStructured(history[r])
            /\ (calls = r => ~isStreaming)

\* A throw with token text pending behind a structured block.
C8_Witness ==
    \E r \in Reqs :
        /\ Len(history[r]) = 3
        /\ IsStructuredEntry(history[r][1])
        /\ history[r][2].k = "run" /\ history[r][2].text # ""
        /\ history[r][3].k = "thrown"

(* C9: error event handling.  Right after an error event has been handled,   *)
(* the response is still being read, nothing is pending in textBuffer, the   *)
(* last block of the message is a text block holding the error message and   *)
(* nothing else, and the token text received before it stands before it.     *)
C9_ErrorEvent ==
    \A r \in Reqs :
        (history[r] # <<>> /\ IsErrorEntry(LastEntry(r))) =>
            /\ pc[r] = "open"
            /\ textBuffer[r] = ""
            /\ Contents(r) # <<>>
            /\ Last(Contents(r)) = TextBlock(ErrorPrefix \o LastEntry(r).event.message)
            /\ GapTexts(Contents(r)) = ExpectedGaps(history[r])
            /\ (Len(history[r]) >= 2 /\ history[r][Len(history[r]) - 1].k = "run"
                    /\ history[r][Len(history[r]) - 1].text # "") =>
                  /\ Len(Contents(r)) >= 2
                  /\ IsText(Contents(r)[Len(Contents(r)) - 1])

\* Tokens, then an error event, then a done that is accepted.
C9_Witness ==
    \E r \in Reqs :
        /\ Len(history[r]) = 3
        /\ history[r][1].k = "run" /\ history[r][1].text # ""
        /\ IsErrorEntry(history[r][2])
        /\ IsDoneEntry(history[r][3])
        /\ Len(Contents(r)) = 2

(* C10: exactly-one terminal event, as stated: a stream that has ended holds *)
(* exactly one event that is done or error, never both.                     *)
C10_ExactlyOneTerminal ==
    opc = "closed" => CountOf("done") + CountOf("error") = 1

(* C10, amended: a stream that has run to its end holds exactly one done,    *)
(* which is its last event, and at most one error, which then stands right   *)
(* before that done; no event follows a terminal event but that done.        *)
C10_DoneLastErrorBefore ==
    /\ opc = "closed" =>
          /\ emitted # <<>>
          /\ Last(emitted) = DoneEvent
          /\ CountOf("done") = 1
    /\ CountOf("error") <= 1
    /\ \A i \in DOMAIN emitted :
          /\ emitted[i].type = "error" => i >= Len(emitted) - 1
          /\ emitted[i].type = "done" => i = Len(emitted)
    /\ (opc = "closed" /\ CountOf("error") = 1) => emitted[Len(emitted) - 1].type = "error"

\* A stream with a tool result, ended by a fatal error: error, then done.
C10_Witness ==
    /\ opc = "closed"
    /\ CountOf("error") = 1
    /\ CountOf("done") = 1
    /\ CountOf("audience_result") = 1

(* C11: error is followed by done.  Once a fatal condition (oracle failure,  *)
(* dispatcher failure, iteration bound exceeded) has put an error event on   *)
(* the stream, the stream goes on to its end, where it holds exactly one     *)
(* error event, immediately followed by done as the last event.  Checked     *)
(* under OrchFairSpec: the server keeps running the request.                 *)
C11_ErrorThenDone ==
    (CountOf("error") > 0) ~>
        /\ opc = "closed"
        /\ CountOf("error") = 1
        /\ Len(emitted) >= 2
        /\ Last(emitted) = DoneEvent
        /\ emitted[Len(emitted) - 1].type = "error"

\* The iteration bound exceeded after a tool failed, reported and released.
C11_Witness ==
    /\ opc = "closed"
    /\ Len(emitted) >= 2
    /\ emitted[Len(emitted) - 1] = ErrorEvent(BoundMessage)
    /\ Last(emitted) = DoneEvent
    /\ \E i \in DOMAIN emitted : emitted[i].type = "agent_step" /\ emitted[i].status = "error"

(* C12: iteration bound.  The turns in which the oracle's request for tools  *)
(* is followed never exceed MaxIterations; when the bound is used up and the *)
(* oracle does not answer, the request fails with an error event; every step *)
(* of the orchestrator lowers a bound of the steps still possible, so the    *)
(* loop ends for every oracle behaviour, and under OrchFairSpec every        *)
(* accepted request reaches its end.                                         *)
C12_IterationBound ==
    /\ [](iteration <= MaxIterations)
    /\ [][OrchMeasure' < OrchMeasure /\ OrchMeasure' >= 0]_vars
    /\ [][(opc = "oracle" /\ iteration = MaxIterations
              /\ opc' \notin {"answer", "closed", "cancelled"}) =>
            (opc' = "failed" /\ Last(emitted').type = "error")]_vars
    /\ (opc = "oracle") ~> (opc \in {"closed", "cancelled"})

\* An oracle that requested tools on every turn, all of them successful: the
\* request ended in error when the bound was used up.
C12_Witness ==
    /\ opc = "closed"
    /\ iteration = MaxIterations
    /\ CountOf("token") = 0
    /\ \E i \in DOMAIN emitted : emitted[i] = ErrorEvent(BoundMessage)
    /\ \A i \in DOMAIN emitted : emitted[i].type = "agent_step" => emitted[i].status # "error"

(* C13: emission ordering, as stated in its last part: no event follows a    *)
(* terminal event (done or error).                                           *)
C13_TerminalLast == \A i \in DOMAIN emitted : IsTerminal(emitted[i]) => i = Len(emitted)

(* C13, amended: in every emitted stream a tool's agent_step done is         *)
(* immediately followed by that tool's structured result, every structured   *)
(* result immediately follows the agent_step done of its tool, no token      *)
(* stands between the start of a dispatch and its result, no event follows   *)
(* done, and the only event that follows an error is that done.              *)
C13_EmissionOrder ==
    \A i \in DOMAIN emitted :
        /\ (emitted[i].type = "agent_step" /\ emitted[i].status = "done") =>
              /\ i < Len(emitted)
              /\ emitted[i + 1] = ResultEvent(emitted[i].node)
              /\ RunningBefore(i) > 0
              /\ \A k \in RunningBefore(i) .. i + 1 : emitted[k].type # "token"
        /\ IsResult(emitted[i]) =>
              /\ i > 1
              /\ emitted[i - 1].type = "agent_step"
              /\ emitted[i - 1].status = "done"
              /\ emitted[i] = ResultEvent(emitted[i - 1].node)
        /\ emitted[i].type = "done" => i = Len(emitted)
        /\ emitted[i].type = "error" =>
              (i = Len(emitted) \/ (i = Len(emitted) - 1 /\ Last(emitted) = DoneEvent))

\* Two tools of one turn completed, then the oracle's text, then done.
C13_Witness ==
    /\ opc = "closed"
    /\ CountOf("audience_result") = 1
    /\ CountOf("campaign_draft") = 1
    /\ CountOf("token") = 2
    /\ CountOf("error") = 0

(* C14: tool failure is recoverable.  The step in which a dispatched tool    *)
(* fails puts agent_step{node, error} and nothing else on the stream,        *)
(* appends the failure to the trace and leaves the loop running: the next    *)
(* requested tool is dispatched, or the oracle is called again.  In every    *)
(* stream no structured result follows an agent_step error, and the trace    *)
(* holds one failure for each agent_step error of the stream.                *)
C14_ToolFailureRecoverable ==
    /\ [][(Len(emitted') > Len(emitted)
              /\ emitted'[Len(emitted) + 1].type = "agent_step"
              /\ emitted'[Len(emitted) + 1].status = "error") =>
            /\ opc = "tool"
            /\ emitted' = Append(emitted, AgentStep(Head(requested), "error"))
            /\ trace' = Append(trace, ToolResult(Head(requested), FALSE))
            /\ requested' = Tail(requested)
            /\ opc' = (IF requested' = <<>> THEN "oracle" ELSE "dispatch")]_vars
    /\ [](/\ \A i \in DOMAIN emitted :
                (emitted[i].type = "agent_step" /\ emitted[i].status = "error"
                    /\ i < Len(emitted)) => ~IsResult(emitted[i + 1])
          /\ Cardinality({i \in DOMAIN trace : ~trace[i].ok})
                = Cardinality({i \in DOMAIN emitted :
                      emitted[i].type = "agent_step" /\ emitted[i].status = "error"})
          /\ Cardinality({i \in DOMAIN trace : trace[i].ok})
                = Cardinality({i \in DOMAIN emitted : IsResult(emitted[i])}))

\* A tool failed, the oracle was called again and its next request succeeded:
\* the stream ended with done and without an error event.
C14_Witness ==
    /\ opc = "closed"
    /\ trace = <<ToolResult("query_crm", FALSE), ToolResult("query_crm", TRUE)>>
    /\ CountOf("error") = 0
    /\ iteration = 2

(* C15: scenario shape.  For the latest request, when the values handed to   *)
(* its loop were agent_step{n, running}, agent_step{n, done}, one            *)
(* audience_result with count > 0, a run of tokens with non-empty text and   *)
(* done, the transcript ends with the user message of the request, one text  *)
(* block, and its assistant message with exactly the two blocks audience,    *)
(* text, the text being the concatenation of the tokens; and the phase map   *)
(* is exactly {n: done}.                                                     *)
C15_ScenarioShape ==
    \A r \in Reqs :
        LET h == history[r]
            shown == IF h # <<>> /\ Last(h) = Ended THEN Front(h) ELSE h
            n == "query_crm"
        IN  (/\ calls = r
             /\ stepLog[r] = <<[event |-> [type |-> "agent_step", node |-> n, status |-> "running"], at |-> 0],
                               [event |-> [type |-> "agent_step", node |-> n, status |-> "done"], at |-> 0]>>
             /\ Len(shown) = 3
             /\ shown[1].k = "event" /\ shown[1].event.type = "audience_result"
             /\ shown[1].event.data.count > 0
             /\ shown[2].k = "run" /\ shown[2].text # ""
             /\ IsDoneEntry(shown[3])) =>
                /\ Len(messages) = 2 * r
                /\ messages[2 * r - 1].role = "user"
                /\ Len(messages[2 * r - 1].contents) = 1
                /\ IsText(messages[2 * r - 1].contents[1])
                /\ messages[2 * r].role = "assistant"
                /\ messages[2 * r].id = AssistantIdOf(r)
                /\ messages[2 * r].contents =
                      <<[kind |-> "audience", data |-> shown[1].event.data], TextBlock(shown[2].text)>>
                /\ DOMAIN phases = {n}
                /\ phases[n] = "done"

\* The scenario run to the end of its response with an answer of three
\* tokens: the first two were flushed by size into a text block behind the
\* audience, the third was merged into that block by done.
C15_Witness ==
    /\ calls = 1
    /\ pc[1] = "finished"
    /\ Len(stepLog[1]) = 2
    /\ Len(history[1]) = 4
    /\ history[1][1].k = "event" /\ history[1][1].event.type = "audience_result"
    /\ history[1][1].event.data.count > 0
    /\ history[1][2] = Run(T30 \o T30 \o "a")
    /\ IsDoneEntry(history[1][3])
    /\ history[1][4] = Ended
    /\ phases = [n \in {"query_crm"} |-> "done"]
    /\ Len(Contents(1)) = 2
    /\ Contents(1)[2] = TextBlock(T30 \o T30 \o "a")
    /\ alt["flushNever"].messages = messages

(* C16: unknown nodes are ignored.  A step in which the loop of a call is    *)
(* handed an agent_step with an unknown node, and nothing else, leaves the   *)
(* call reading, the transcript as it is and the pipeline as it is           *)
(* rendered: displayed or not, with the same status for each phase.          *)
C16_UnknownNodeIgnored ==
    [][\A r \in Reqs :
          (/\ Len(stepLog'[r]) = Len(stepLog[r]) + 1
           /\ Last(stepLog'[r]).event.node \in UnknownNodes
           /\ history'[r] = history[r]) =>
              /\ pc'[r] = pc[r]
              /\ messages' = messages
              /\ AgentPipeline(phases') = AgentPipeline(phases)]_vars

(* C17: the tool-to-phase mapping.  For the latest call, after an agent_step *)
(* for query_crm with status s was handed to its loop, and none for that     *)
(* node since, the pipeline shows status s for the phase audience_research.  *)
C17_ToolPhaseShown ==
    \A r \in Reqs : \A i \in DOMAIN stepLog[r] :
        LET step == stepLog[r][i].event
        IN  (/\ calls = r
             /\ step.node = "query_crm"
             /\ \A j \in DOMAIN stepLog[r] : j > i => stepLog[r][j].event.node # step.node) =>
                StatusShown(phases, ToolPhase(step.node)) = step.status

(* C18: zero-result suppression.  The block of an audience_result with count *)
(* 0 is stored in the message at its place in stream order and rendered as   *)
(* nothing; every other block is rendered, at its place, as it would be had  *)
(* the count been above zero; and when for the latest call the event came    *)
(* right after agent_step{node, done}, with no later agent_step for the      *)
(* node, the phase map holds node = done.                                    *)
C18_ZeroResultSuppressed ==
    \A r \in Reqs :
        LET contents == Contents(r)
            h == history[r]
        IN  /\ NonText(contents) = ExpectedStructured(h)
            /\ \A i \in DOMAIN contents :
                  IF IsEmptyAudience(contents[i])
                  THEN MessageBubble(contents)[i] = Null
                  ELSE /\ MessageBubble(contents)[i] = MessageBubble(WithAudience(contents))[i]
                       /\ MessageBubble(contents)[i] # Null
            /\ \A p \in DOMAIN h : \A i \in DOMAIN stepLog[r] :
                  (/\ calls = r
                   /\ h[p].k = "event" /\ h[p].event.type = "audience_result"
                   /\ h[p].event.data.count = 0
                   /\ stepLog[r][i].at = p - 1
                   /\ stepLog[r][i].event.status = "done"
                   /\ \A j \in DOMAIN stepLog[r] :
                         j > i => stepLog[r][j].event.node # stepLog[r][i].event.node) =>
                      /\ stepLog[r][i].event.node \in DOMAIN phases
                      /\ phases[stepLog[r][i].event.node] = "done"

\* agent_step{query_crm, done}, an audience_result with count 0 and a campaign
\* draft: two blocks stored, the second rendered at the second place.
C18_Witness ==
    /\ calls = 1
    /\ Len(stepLog[1]) = 1 /\ stepLog[1][1].event.status = "done" /\ stepLog[1][1].at = 0
    /\ Len(Contents(1)) = 2
    /\ IsEmptyAudience(Contents(1)[1])
    /\ Contents(1)[2].kind = "campaign"
    /\ MessageBubble(Contents(1))[2].key = 2
    /\ phases = [n \in {"query_crm"} |-> "done"]

(* C19: token batching bound.  A step in which the loop of a call handles    *)
(* one token, and no other event that touches the message, changes the       *)
(* blocks of its message only when the pending text with the token's content *)
(* is longer than 50 characters; the pending text is never longer than 50    *)
(* characters after the events of a read are handled, and it is empty when   *)
(* the last event handled is an audience_result, campaign_draft, scheduled,  *)
(* done or error event.                                                      *)
C19_TokenBatching ==
    /\ [][\A r \in Reqs : \A c \in TokenContents :
            (/\ pc[r] = "open"
             /\ wire'[r] # wire[r] \/ netEvents' # netEvents
             /\ history'[r] = Record(history[r], [type |-> "token", content |-> c])
             /\ Contents(r)' # Contents(r)) =>
                Len(textBuffer[r] \o c) > FlushThreshold]_vars
    /\ [](\A r \in Reqs :
            /\ Len(textBuffer[r]) <= FlushThreshold
            /\ (history[r] # <<>> /\ IsBounding(LastEntry(r))) => textBuffer[r] = "")

\* Two tokens of 30 characters: the second one made the pending text pass 50
\* characters and the whole was flushed as one block.
C19_Witness ==
    \E r \in Reqs :
        /\ history[r] = <<Run(T30 \o T30)>>
        /\ Contents(r) = <<TextBlock(T30 \o T30)>>
        /\ textBuffer[r] = ""

\* One change by flushText: nothing, the last block, of kind text, extended
\* by `text`, or after a last block of another kind a text block appended.
OneTextChange(old, new, text) ==
    \/ new = old
    \/ /\ old # <<>> /\ IsText(Last(old))
       /\ new = Front(old) \o <<TextBlock(Last(old).text \o text)>>
    \/ /\ old = <<>> \/ ~IsText(Last(old))
       /\ new = Append(old, TextBlock(text))

\* `new` continues `old`: the blocks of old are there, in place, the last of
\* them, when of kind text, possibly extended; blocks may follow.
Continues(old, new) ==
    /\ Len(new) >= Len(old)
    /\ \A i \in 1 .. Len(old) - 1 : new[i] = old[i]
    /\ old # <<>> =>
          \/ new[Len(old)] = old[Len(old)]
          \/ /\ IsText(old[Len(old)])
             /\ IsText(new[Len(old)])
             /\ \E t \in Concats(MaxNet) : new[Len(old)].text = old[Len(old)].text \o t

(* C20: append/merge only.  In every state a flushText of a call under way   *)
(* changes its message by extending the last block, when that is of kind     *)
(* text, with the pending text, or else by appending one text block, and an  *)
(* appendContent after it appends exactly one block at the end; and over     *)
(* every step the blocks of a message continue the blocks it had: none is    *)
(* removed, moved or rewritten but for the last text block being extended.   *)
C20_AppendMergeOnly ==
    /\ [](\A r \in Reqs :
            Active(r) =>
                LET flushed == flushText(Code, r)
                IN  /\ OneTextChange(Contents(r), ContentsIn(flushed, r), textBuffer[r])
                    /\ \A e \in StructuredEvents :
                          ContentsIn(appendContent(flushed, r, BlockOf(e)), r)
                              = Append(ContentsIn(flushed, r), BlockOf(e)))
    /\ [][\A r \in Reqs : Continues(Contents(r), Contents(r)')]_vars

\* The text of an error block extended by the tokens that followed it.
C20_Witness ==
    \E r \in Reqs :
        /\ Len(history[r]) = 3
        /\ IsErrorEntry(history[r][1])
        /\ history[r][2] = Run("a")
        /\ IsDoneEntry(history[r][3])
        /\ Contents(r) = <<TextBlock(ErrorPrefix \o "boom" \o "a")>>


\* The steps of one call of send: accepted, answered, ended.
CallSteps ==
    {<<"idle", "fetch">>, <<"fetch", "open">>, <<"fetch", "finished">>, <<"open", "finished">>}

(* C21: single request in flight.  In every state where isStreaming is true  *)
(* a send with any text returns the state as it is: no message appended, the *)
(* phase map not reset, no request issued.  isStreaming is true exactly      *)
(* while a call is under way, at most one call is under way at a time, each  *)
(* call goes idle, fetch, open, finished without a step back, and a call is  *)
(* accepted only in a state where the lock is released and every earlier     *)
(* call is finished.                                                         *)
C21_SingleRequest ==
    /\ [](/\ isStreaming =>
                \A text \in InputTexts : \A r \in Reqs : r > calls => send(Code, r, text) = Code
          /\ isStreaming <=> \E r \in Reqs : Active(r)
          /\ Cardinality({r \in Reqs : Active(r)}) <= 1
          /\ \A r \in Reqs : r > calls <=> pc[r] = "idle")
    /\ [][/\ \A r \in Reqs : pc'[r] # pc[r] => <<pc[r], pc'[r]>> \in CallSteps
          /\ calls' # calls =>
                /\ ~isStreaming
                /\ \A r \in Reqs : pc[r] \in {"idle", "finished"}
                /\ calls' = calls + 1
                /\ pc'[calls'] = "fetch"
                /\ Len(messages') = Len(messages) + 2]_vars

\* A call under way that has filled its message and the phase map, and a
\* text that is not blank, with which send returns the state as it is.
C21_Witness ==
    /\ calls = 1
    /\ isStreaming
    /\ pc[1] = "open"
    /\ Contents(1) # <<>>
    /\ phases # NoPhases
    /\ \E text \in InputTexts : Join(TrimText(text)) # "" /\ send(Code, 2, text) = Code


(* C22: a rejected request emits nothing.  When the server has answered the  *)
(* request of a call with a non-OK status, nothing was handed to the loop of *)
(* the call: no agent_step, token or structured event.  The call is          *)
(* finished with nothing pending, its assistant message holds exactly one    *)
(* block, the text of the connection error, and while no later call has been *)
(* accepted the phase map is empty and the lock is released.                 *)
C22_RejectedRequest ==
    \A r \in Reqs :
        (history[r] # <<>> /\ history[r][1] = Thrown(ApiErrorMessage)) =>
            /\ history[r] = <<Thrown(ApiErrorMessage)>>
            /\ stepLog[r] = <<>>
            /\ pc[r] = "finished"
            /\ textBuffer[r] = ""
            /\ buffer[r] = <<>>
            /\ Contents(r) = <<TextBlock(ConnectionErrorPrefix \o ApiErrorMessage)>>
            /\ calls = r => (~isStreaming /\ phases = NoPhases)

\* A first call that filled the phase map and ended, and a second call
\* whose request was rejected.
C22_Witness ==
    /\ calls = 2
    /\ stepLog[1] # <<>>
    /\ pc[1] = "finished"
    /\ history[2] = <<Thrown(ApiErrorMessage)>>
    /\ pc[2] = "finished"


RECURSIVE UpToThrow(_)
\* The values up to the first whose handling throws, that one included.
UpToThrow(values) ==
    IF values = <<>> THEN <<>>
    ELSE IF ReadingTypeThrows(Head(values)) THEN <<Head(values)>>
    ELSE <<Head(values)>> \o UpToThrow(Tail(values))

(* C23: delivery order equals emission order, independent of chunking.       *)
(* However the bytes of a body are split into reads, also inside a JSON text *)
(* or inside the "data: " prefix, the values yielded so far and those of the *)
(* parts still to look at are the values of the frames whose delimiter has   *)
(* been read to its end, each once and in the order of the frames, up to the *)
(* first value at which the loop of send throws and closes the generator;    *)
(* what is yielded so far is a beginning of that sequence; the buffer holds  *)
(* the bytes read after the last of these frames; and when the generator has *)
(* returned the values yielded are those of all delimited frames of the      *)
(* body up to such a value.                                                  *)
C23_ChunkingIndependence ==
    LET due == UpToThrow(YieldsOf(WhollyRead))
    IN  /\ UpToThrow(yielded \o ParseParts(partsLeft)) = due
        /\ yielded = SubSeq(due, 1, Len(yielded))
        /\ partsLeft = <<>> => yielded = due
        /\ streamBuffer = SubSeq(Stream, Len(BytesOf(WhollyRead)) + 1, offset)
        /\ returned => yielded = UpToThrow(YieldsOf(written))

\* A body of three frames with three values, the second with its prefix in
\* two pieces, the third with a JSON text in two pieces, after a read that
\* ended inside the prefix of the second: the first value is yielded, the
\* first piece of the prefix is kept.
C23_Witness ==
    /\ Len(written) = 3
    /\ Len(YieldsOf(written)) = 3
    /\ written[2].bytes[1] = DATA_HEAD
    /\ written[3].bytes[2].a = "jsonHead"
    /\ partsLeft = <<>>
    /\ Len(yielded) = 1
    /\ streamBuffer = <<DATA_HEAD>>
    /\ offset = Len(written[1].bytes) + 1


(* C24: idempotent scheduling.  Two invocations of schedule with identical   *)
(* segment and campaign parameters return the same campaign_id, and the same *)
(* campaign; an invocation whose input was given before leaves the campaigns *)
(* as they are and returns one of them; no two campaigns are scheduled for   *)
(* the same segment with the same parameters, and invocations with different *)
(* input return different campaigns.                                         *)
C24_IdempotentScheduling ==
    /\ [](/\ \A i, j \in DOMAIN results :
                /\ SameInput(results[i], results[j]) =>
                      /\ results[i].result.campaign_id = results[j].result.campaign_id
                      /\ results[i].result = results[j].result
                /\ ~SameInput(results[i], results[j]) =>
                      results[i].result.campaign_id # results[j].result.campaign_id
          /\ \A i \in DOMAIN results :
                /\ \E k \in DOMAIN campaigns : campaigns[k] = results[i].result
                /\ results[i].result.segment_id = results[i].segment
                /\ results[i].result.event_name = results[i].parameters.event_name
                /\ results[i].result.send_at = results[i].parameters.send_at
          /\ \A k, l \in DOMAIN campaigns :
                k # l =>
                    /\ campaigns[k].campaign_id # campaigns[l].campaign_id
                    /\ \/ campaigns[k].segment_id # campaigns[l].segment_id
                       \/ campaigns[k].event_name # campaigns[l].event_name
                       \/ campaigns[k].send_at # campaigns[l].send_at)
    /\ [][(/\ Len(results') = Len(results) + 1
           /\ \E i \in DOMAIN results : SameInput(results[i], Last(results'))) =>
              campaigns' = campaigns]_vars

\* The same input given twice, with another invocation between the two: two
\* campaigns, the third invocation returned the first.
C24_Witness ==
    /\ Len(results) = 3
    /\ SameInput(results[1], results[3])
    /\ ~SameInput(results[1], results[2])
    /\ Len(campaigns) = 2
    /\ results[3].result = campaigns[1]


(* C25: no token is lost at the end of a request.  When a call is finished,  *)
(* whichever way its stream ended, nothing is pending in textBuffer and the  *)
(* text of its message holds, gap by gap and in order, every token fragment  *)
(* that was handed to its loop.                                              *)
C25_NoTokenLost ==
    \A r \in Reqs :
        pc[r] = "finished" =>
            /\ textBuffer[r] = ""
            /\ GapTexts(Contents(r)) = ExpectedGaps(history[r])


(* C26: unterminated trailing frame.  The step in which the body of a call   *)
(* ends leaves the transcript, the phase map, the pending text and the parse *)
(* buffer as they are, whatever the buffer holds, and finishes the call:     *)
(* data in the buffer that no delimiter follows is neither parsed nor handed *)
(* to the loop, so a done frame written without its delimiter flushes        *)
(* nothing and is not handled.                                               *)
C26_TrailingFrameDiscarded ==
    [][\A r \in Reqs :
          (pc[r] = "open" /\ history'[r] = Append(history[r], Ended)) =>
              /\ messages' = messages
              /\ phases' = phases
              /\ textBuffer' = textBuffer
              /\ buffer' = buffer
              /\ stepLog' = stepLog
              /\ pc'[r] = "finished"
              /\ ~isStreaming']_vars

\* A token, then a done frame without its delimiter, then the end of the
\* body: the frame is still in the buffer, the token text was never flushed.
C26_Witness ==
    \E r \in Reqs :
        /\ pc[r] = "finished"
        /\ history[r] = <<Run("a"), Ended>>
        /\ buffer[r] = <<DATA, Json(DoneEvent)>>
        /\ textBuffer[r] = "a"
        /\ Contents(r) = <<>>


(* C27: well-formed JSON that is not an event.  A read of a call in which    *)
(* its loop is handed no event of the schema, only values that are no event  *)
(* (null, a number, an object with an unknown type), changes neither the     *)
(* transcript nor the phase map and leaves the call reading.                 *)
C27_NonEventIgnored ==
    [][\A r \in Reqs :
          (/\ pc[r] = "open"
           /\ wire'[r] # wire[r] \/ netEvents' # netEvents
           /\ stepLog'[r] = stepLog[r]
           /\ \/ history'[r] = history[r]
              \/ history'[r] = Append(history[r], Thrown(TypeErrorMessage))) =>
              /\ messages' = messages
              /\ phases' = phases
              /\ pc'[r] = "open"]_vars


RECURSIVE TextLines(_)
\* The text blocks among `blocks`, one per line.
TextLines(blocks) ==
    IF blocks = <<>> THEN ""
    ELSE LET b == Last(blocks)
             before == Front(blocks)
         IN  IF ~IsText(b) THEN TextLines(before)
             ELSE IF \E i \in DOMAIN before : IsText(before[i])
                  THEN TextLines(before) \o "\n" \o b.text
                  ELSE b.text

(* C29: history construction.  The history sent with the request of call r   *)
(* has one entry for each message of the transcript up to the user message   *)
(* of the call, in order: 2r - 1 entries, the last being the new user turn.  *)
(* Each entry has the role of its message and as content the text blocks of  *)
(* the message, one per line: structured blocks are left out, a message with *)
(* no text block is sent with empty content, and the text of an error block  *)
(* is sent like any other text.                                              *)
C29_HistoryConstruction ==
    \A r \in Reqs :
        r <= calls =>
            LET h == requestHistory[r]
            IN  /\ Len(h) = 2 * r - 1
                /\ h[2 * r - 1].role = "user"
                /\ messages[2 * r - 1].id = UserId(r)
                /\ \A i \in 1 .. 2 * r - 1 :
                      /\ h[i].role = messages[i].role
                      /\ h[i].content = TextLines(messages[i].contents)
                      /\ (\A k \in DOMAIN messages[i].contents :
                              IsStructured(messages[i].contents[k])) => h[i].content = ""

\* A second request after a first whose message holds a text block, an
\* audience block and the text block of a connection error.
C29_Witness ==
    /\ calls = 2
    /\ Len(Contents(1)) = 3
    /\ IsStructured(Contents(1)[2])
    /\ requestHistory[2] =
          <<[role |-> "user", content |-> "hi"],
            [role |-> "assistant",
             content |-> "a\n" \o ConnectionErrorPrefix \o NetworkErrorMessage],
            [role |-> "user", content |-> "hi"]>>


(* C28: no double send under interleaving.  At most one call of send is      *)
(* under way at any time, also when send is called again before the          *)
(* component has rendered: no second pair of messages and no second request  *)
(* while the first call is unfinished.                                       *)
C28_NoDoubleSend ==
    /\ \A r1, r2 \in Reqs : (Active(r1) /\ Active(r2)) => r1 = r2
    /\ \A r \in Reqs : Active(r) => Len(messages) = 2 * r


\* A text, given as its characters, with no space at either end.
IsTrimmed(cs) == cs = <<>> \/ (Head(cs) \notin WhiteSpaceChars /\ Last(cs) \notin WhiteSpaceChars)

\* The texts of the user messages that send can make.
UserTexts == {Join(TrimText(cs)) : cs \in InputTexts} \ {""}

(* C30: transcript shape.  In every state the transcript holds one user      *)
(* message and one assistant message for each accepted send, in the order of *)
(* the sends, the user message first: roles alternate starting with user.    *)
(* A user message holds exactly one text block, not empty and trimmed.  A    *)
(* step that accepts a send appends exactly a user message followed by an    *)
(* empty assistant message; no other step changes the number of messages; no *)
(* step removes or moves a message or changes a user message.                *)
C30_TranscriptShape ==
    /\ [](/\ Len(messages) = 2 * calls
          /\ \A r \in 1 .. calls :
                /\ messages[2 * r - 1].role = "user"
                /\ messages[2 * r - 1].id = UserId(r)
                /\ Len(messages[2 * r - 1].contents) = 1
                /\ IsText(messages[2 * r - 1].contents[1])
                /\ messages[2 * r - 1].contents[1].text \in UserTexts
                /\ messages[2 * r].role = "assistant"
                /\ messages[2 * r].id = AssistantIdOf(r)
          /\ \A cs \in InputTexts : IsTrimmed(TrimText(cs)))
    /\ [][/\ Len(messages') >= Len(messages)
          /\ \A i \in DOMAIN messages :
                /\ messages'[i].id = messages[i].id
                /\ messages'[i].role = messages[i].role
                /\ messages[i].role = "user" => messages'[i] = messages[i]
          /\ calls' # calls =>
                /\ Len(messages') = Len(messages) + 2
                /\ messages'[Len(messages) + 1].role = "user"
                /\ messages'[Len(messages) + 2] =
                      [id |-> AssistantIdOf(calls'), role |-> "assistant", contents |-> <<>>]
          /\ calls' = calls => Len(messages') = Len(messages)]_vars

\* Two sends accepted, the message of the first grown to two blocks and the
\* message of the second being filled.
C30_Witness ==
    /\ calls = 2
    /\ Len(messages) = 4
    /\ Len(Contents(1)) = 2
    /\ Contents(2) # <<>>
    /\ pc[2] = "open"


\* The blocks of kind text in a state record, over all its messages.
TextBlocksIn(st) ==
    LET blocks == UNION {{st.messages[i].contents[j] : j \in DOMAIN st.messages[i].contents} :
                            i \in DOMAIN st.messages}
    IN  {b \in blocks : IsText(b)}

\* Runs of tokens that carry no text: no token, one or two empty tokens.
EmptyRuns ==
    LET empty == [type |-> "token", content |-> ""]
    IN  {<<>>, <<empty>>, <<empty, empty>>}

\* Two structured events that follow one another in a response: the
\* audience and the draft made for it, the draft and its scheduling.
StructuredPairs ==
    {<<[type |-> "audience_result", data |-> [count |-> 12, segment_id |-> "seg_1"]],
       [type |-> "campaign_draft", data |-> [email |-> "subject", sms |-> "body"]]>>,
     <<[type |-> "campaign_draft", data |-> [email |-> "subject", sms |-> "body"]],
       [type |-> "scheduled", data |-> [campaign_id |-> "cmp_1", audience_size |-> 12]]>>}

(* C31: no empty text block.  In every reachable state every block of kind   *)
(* text in every message, of the user or of the assistant, has a text that   *)
(* is not empty.  For every call that reads its response, flushText with an  *)
(* empty pending text returns the state as it is, a second flushText after a *)
(* first changes nothing, and a structured event, a run of no token or of    *)
(* empty tokens only and a second structured event put exactly the blocks of *)
(* the two events at the end of the message, with no text block between.     *)
C31_NoEmptyText ==
    /\ \A b \in TextBlocksIn(Code) : b.text # ""
    /\ \A r \in Reqs :
          pc[r] = "open" =>
              /\ textBuffer[r] = "" => flushText(Code, r) = Code
              /\ flushText(flushText(Code, r), r) = flushText(Code, r)
              /\ \A pair \in StructuredPairs : \A run \in EmptyRuns :
                    LET first == HandleEvent(Code, r, pair[1], FlushThreshold)
                        last == HandleEvent(RunLoop(first, r, run, FlushThreshold), r, pair[2],
                                            FlushThreshold)
                    IN  /\ ContentsIn(last, r) = Append(ContentsIn(first, r), BlockOf(pair[2]))
                        /\ Last(ContentsIn(first, r)) = BlockOf(pair[1])
                        /\ last.textBuffer[r] = ""

\* The loop of a call was handed a structured event, an empty token and a
\* second structured event: its message holds the two blocks and no text
\* block, and a flushText leaves the state as it is.
C31_Witness ==
    \E r \in Reqs :
        /\ Len(history[r]) = 3
        /\ IsStructuredEntry(history[r][1])
        /\ history[r][2] = Run("")
        /\ IsStructuredEntry(history[r][3])
        /\ pc[r] = "open"
        /\ Len(Contents(r)) = 2
        /\ \A i \in DOMAIN Contents(r) : IsStructured(Contents(r)[i])
        /\ flushText(Code, r) = Code


\* From `old` to `new` no message but the assistant message of call r has
\* changed: the list is as long, every other message is as it was, and the
\* message of call r has kept its identifier and its role.
OthersSame(old, new, r) ==
    /\ Len(new.messages) = Len(old.messages)
    /\ \A i \in DOMAIN old.messages :
          IF old.messages[i].id = AssistantIdOf(r)
          THEN /\ new.messages[i].id = old.messages[i].id
               /\ new.messages[i].role = old.messages[i].role
          ELSE new.messages[i] = old.messages[i]

(* C32: other messages are untouched.  In every state, for a call under way, *)
(* whatever its loop is handed next (an event of the schema, a value that is *)
(* none, a value whose handling throws), a flushText, an appendContent and   *)
(* the catch block of a failure change no message but the assistant message  *)
(* of that call, found by its identifier.  Over every step each message      *)
(* stays at its place, and a message that the step changes is the assistant  *)
(* message of the call under way: the user message of that call, and the     *)
(* user and assistant messages of the calls before it, are as they were.     *)
C32_OthersUntouched ==
    /\ [](\A r \in Reqs :
            Active(r) =>
                /\ \A v \in SSEEvents \cup NonEvents :
                      OthersSame(Code, RunLoop(Code, r, <<v>>, FlushThreshold), r)
                /\ OthersSame(Code, flushText(Code, r), r)
                /\ \A e \in StructuredEvents :
                      OthersSame(Code, appendContent(Code, r, BlockOf(e)), r)
                /\ \A m \in {ApiErrorMessage, NetworkErrorMessage} :
                      OthersSame(Code, CatchFinally(Code, r, m), r))
    /\ [][\A i \in DOMAIN messages :
            /\ i \in DOMAIN messages'
            /\ messages'[i] # messages[i] =>
                  \E r \in Reqs :
                      /\ Active(r)
                      /\ messages[i].id = AssistantIdOf(r)
                      /\ messages'[i].id = AssistantIdOf(r)]_vars

\* A second call that has put blocks into its message after a first call
\* that had filled its own: the two user messages hold the trimmed texts and
\* each assistant message stands behind the user message of its call.
C32_Witness ==
    /\ calls = 2
    /\ pc[1] = "finished"
    /\ pc[2] = "open"
    /\ Len(messages) = 4
    /\ Contents(1) # <<>>
    /\ Contents(2) # <<>>
    /\ messages[1] = UserMessage(1, <<" ", "h", "i", " ">>)
    /\ messages[3] = UserMessage(2, <<" ", "h", "i", " ">>)
    /\ messages[2].id = AssistantIdOf(1)
    /\ messages[4].id = AssistantIdOf(2)


\* The map from node to the status of the last agent_step for it in `log`.
LastWrite(log) ==
    LET nodes == {log[i].event.node : i \in DOMAIN log}
        latest(n) == CHOOSE i \in DOMAIN log :
                        /\ log[i].event.node = n
                        /\ \A j \in DOMAIN log : j > i => log[j].event.node # n
    IN  [n \in nodes |-> log[latest(n)].event.status]

\* The events of the schema that are no agent_step.
OtherEvents == TokenEvents \cup StructuredEvents \cup {DoneEvent} \cup ErrorEvents

(* C33: the phase projection is last-write-wins per request.  In every state *)
(* the phase map is empty before the first accepted send and afterwards maps *)
(* each node to the status of the last agent_step for it that the loop of    *)
(* the latest accepted call was handed, and holds no other node: nothing of  *)
(* an earlier call is left in it.  In every state where send is accepted it  *)
(* returns an empty phase map; for a call that reads its response a token, a *)
(* structured, a done and an error event return the phase map as it is, and  *)
(* an agent_step returns it with the status of that node overwritten.        *)
C33_PhaseProjection ==
    /\ phases = IF calls = 0 THEN NoPhases ELSE LastWrite(stepLog[calls])
    /\ ~isStreaming /\ calls < MaxSends =>
          send(Code, calls + 1, <<" ", "h", "i", " ">>).phases = NoPhases
    /\ \A r \in Reqs :
          pc[r] = "open" =>
              /\ \A e \in OtherEvents : HandleEvent(Code, r, e, FlushThreshold).phases = phases
              /\ \A e \in AgentStepEvents :
                    LET after == HandleEvent(Code, r, e, FlushThreshold).phases
                    IN  /\ DOMAIN after = DOMAIN phases \cup {e.node}
                        /\ after[e.node] = e.status
                        /\ \A n \in DOMAIN phases : n # e.node => after[n] = phases[n]

\* A first call was handed a step of an unknown node and has ended; the
\* second was handed query_crm running and then done: the map holds
\* query_crm = done and nothing of the first call.
C33_Witness ==
    /\ calls = 2
    /\ pc[1] = "finished"
    /\ pc[2] = "open"
    /\ Len(stepLog[1]) = 1
    /\ stepLog[1][1].event.node = "mystery"
    /\ Len(stepLog[2]) = 2
    /\ stepLog[2][1].event = [type |-> "agent_step", node |-> "query_crm", status |-> "running"]
    /\ stepLog[2][2].event = [type |-> "agent_step", node |-> "query_crm", status |-> "done"]
    /\ phases = [n \in {"query_crm"} |-> "done"]


(* C34: no phase left running.  In every state where an accepted call has   *)
(* finished and the lock is released (after done, an error event, a thrown  *)
(* exception or the end of the response) no node of the phase map has the   *)
(* status running, and the pipeline shows no phase as running.              *)
C34_NoPhaseLeftRunning ==
    (calls > 0 /\ ~isStreaming /\ pc[calls] = "finished") =>
        /\ \A n \in DOMAIN phases : phases[n] # "running"
        /\ AgentPipeline(phases).shown =>
              \A i \in DOMAIN PHASES : AgentPipeline(phases).status[i] # "running"

====
